---- MODULE Spec2Model ----
(***************************************************************************)
(* progress-nav-scrollspy: the scroll-to-active-section engine of          *)
(* useVisibleSections (dist/hooks.js), as a state machine.                 *)
(*                                                                         *)
(* The component lives in a page (a DOM tree with overflow styles), the    *)
(* content headings have a layout (pixel rectangles in document            *)
(* coordinates), the browser delivers scroll events, animation frames,     *)
(* timers and resizes, and React mounts, re-runs and tears down the        *)
(* effect.  Pixel quantities are integers; the viewport threshold 0.8 is   *)
(* the fraction ThresholdNum / ThresholdDen.                               *)
(***************************************************************************)
EXTENDS Integers, Sequences, FiniteSets, TLC

\* ---------------------------------------------------------------- options
Offset == 100
VelocityThreshold == 2
TocScrollPadding == 20
ThresholdNum == 8
ThresholdDen == 10
ReenableDelay == 150

\* ----------------------------------------------------------------- bounds
\* the clock advances in steps of TickMs up to MaxTicks steps
TickMs == 75
MaxTicks == 2
\* animation-frame callbacks that may be pending at once
MaxQueue == 2
\* how many times the effect may be re-run (catalog change) in a behaviour
MaxReruns == 1
\* how many DOM mutations of the content (heading removed / inserted)
MaxMutations == 1
\* the longest flat list of items given to buildNestedStructure
MaxItems == 4
\* how many elements the selector of extractHeadingsFromDOM matches
MaxElements == 2

NULL == "null"

\* ------------------------------------------------------------ the catalog
AllIds == {"s1", "s2", "s3"}
CatalogFull == <<"s1", "s2", "s3">>
CatalogShort == <<"s2", "s3">>
Catalogs == {CatalogFull, CatalogShort}

\* ------------------------------------------------- the page (DOM + styles)
\* Nodes of the page; every page has the same nodes, pages differ in the
\* parent relation and in the computed overflow of main and aside.
PageNames == {"split", "bare", "shared", "fullpage"}

ParentOf(pg, node) ==
  CASE node = "heading" -> "article"
    [] node = "article" -> "main"
    [] node = "main"    -> "body"
    [] node = "nav"     -> IF pg = "shared" THEN "main" ELSE "aside"
    [] node = "aside"   -> "body"
    [] node = "body"    -> "html"
    [] OTHER            -> NULL

\* computed style: [overflow, overflowY] of a node
StyleOf(pg, node) ==
  CASE node = "main" /\ pg # "fullpage" ->
         [overflow |-> "visible", overflowY |-> "auto"]
    [] node = "aside" /\ pg \in {"split", "fullpage"} ->
         [overflow |-> "scroll", overflowY |-> "scroll"]
    [] node = "aside" /\ pg = "bare" ->
         [overflow |-> "hidden", overflowY |-> "hidden"]
    [] OTHER -> [overflow |-> "visible", overflowY |-> "visible"]

\* overflow.includes('auto') || overflow.includes('scroll') on the
\* concatenation style.overflow + style.overflowY
OverflowScrolls(style) ==
  \/ style.overflow \in {"auto", "scroll"}
  \/ style.overflowY \in {"auto", "scroll"}

RECURSIVE ScrollAncestor(_, _)
ScrollAncestor(pg, node) ==
  IF node = NULL THEN NULL
  ELSE IF OverflowScrolls(StyleOf(pg, node)) THEN node
  ELSE ScrollAncestor(pg, ParentOf(pg, node))

\* findScrollParent(element): null for a null element, else the nearest
\* proper ancestor whose overflow is auto or scroll, else null
FindScrollParent(pg, element) ==
  IF element = NULL THEN NULL
  ELSE ScrollAncestor(pg, ParentOf(pg, element))

\* ------------------------------------------------------ heading layouts
\* A layout gives each heading its rectangle in the coordinates of the
\* scrolled content, the client height of the content scroll container and
\* its scroll height.
Rect(t, b) == [top |-> t, bottom |-> b]

\* Scenario A: three stacked sections of 2000px, viewport 800
LayoutTall ==
  [pos |-> [i \in AllIds |->
              CASE i = "s1" -> Rect(0, 2000)
                [] i = "s2" -> Rect(2000, 4000)
                [] OTHER    -> Rect(4000, 6000)],
   clientHeight |-> 800, scrollHeight |-> 6800]

\* Scenario B: three 50px headings that fit in the viewport together
LayoutShort ==
  [pos |-> [i \in AllIds |->
              CASE i = "s1" -> Rect(1000, 1050)
                [] i = "s2" -> Rect(1050, 1100)
                [] OTHER    -> Rect(1100, 1150)],
   clientHeight |-> 800, scrollHeight |-> 6800]

\* headings whose geometric order differs from the catalog order
LayoutShuffled ==
  [pos |-> [i \in AllIds |->
              CASE i = "s1" -> Rect(1700, 1750)
                [] i = "s2" -> Rect(500, 550)
                [] OTHER    -> Rect(1500, 1550)],
   clientHeight |-> 800, scrollHeight |-> 6800]

\* content that does not scroll (everything fits)
LayoutFits ==
  [pos |-> [i \in AllIds |->
              CASE i = "s1" -> Rect(700, 750)
                [] i = "s2" -> Rect(750, 790)
                [] OTHER    -> Rect(790, 800)],
   clientHeight |-> 800, scrollHeight |-> 800]

Layouts == {LayoutTall, LayoutShort, LayoutShuffled, LayoutFits}

\* scroll offsets the user may scroll the content to (clamped to the
\* container's range): the extremes, Scenario A's 2050, and offsets that put
\* a heading top exactly on the threshold line or a heading bottom exactly
\* on the -offset line
ScrollOffsets == {0, 460, 600, 1150, 1360, 2050, 2100, 6000}

Min(a, b) == IF a < b THEN a ELSE b
Max(a, b) == IF a > b THEN a ELSE b
Abs(x) == IF x < 0 THEN -x ELSE x

\* ------------------------------------------------------------ variables
VARIABLES
  \* the page and the content (environment)
  page,              \* which DOM arrangement the component lives in
  layout,            \* the heading layout of the content
  present,           \* ids whose heading element is in the document
  contentScrollTop,  \* scrollTop of the content scroll container (main)
  tocScrollTop,      \* scrollTop of the TOC's own scroller (aside or nav)
  linkHeight,        \* rendered height of one TOC link row
  tocColumns,        \* CSS column-count of the host's .pns-list (1 = stacked)
  level,             \* heading level of each id (the item's level field)
  now,               \* performance.now(), in milliseconds
  \* React: the component instance
  phase,             \* "idle" (not mounted yet), "mounted", "unmounted"
  items,             \* the catalog of the current effect run
  rendered,          \* ids of the rendered .pns-link elements, in DOM order
  activeItems,       \* useState: activeItems
  pathInfo,          \* useState of usePathSegments: pathInfo
  \* useRef cells of useVisibleSections
  scrollContainerRef,
  lastActiveIdsRef,
  lastScrollTopRef,
  lastScrollTimeRef,
  isFastScrollingRef,
  scrollTimeoutRef,
  linkPositionsCacheRef,
  cacheInvalidatedRef,
  \* the rendered indicator path and links
  transition,        \* inline style.transition of the indicator
  strokeDasharray,   \* inline style.strokeDasharray of the indicator
  strokeDashoffset,  \* inline style.strokeDashoffset of the indicator
  activeClass,       \* rendered links that carry pns-link--active
  \* the host's queues and registrations
  rafQueue,          \* requested animation-frame callbacks, oldest first
  frameLeft,         \* callbacks of the running frame still to be invoked
  timers,            \* pending setTimeout handles with their due time
  scrollListener,    \* effect run whose handleScroll is registered, or 0
  resizeListeners,   \* effect runs whose handleResize is registered
  effectRun,         \* number of the current effect run
  inThrottle,        \* throttle(calculatePath, 100) is in its quiet period
  segmentsTimer,     \* the setTimeout(updateSegments, 50) is pending
  \* the component's other hooks: useReadingProgress and useHashUpdate
  showProgress,      \* prop showProgress (enabled of useReadingProgress)
  progress,          \* useState of useReadingProgress
  progressThrottle,  \* throttle(updateProgress, 50) is in its quiet period
  updateHash,        \* prop updateHash (enabled of useHashUpdate)
  urlHash,           \* window.location.hash
  lastHashRef,       \* useRef of useHashUpdate
  historyCalls,      \* the last calls of window.history methods, oldest first
  \* the utilities of utils.ts, applied to inputs of their own
  flatItems,         \* a flat list of TocItems
  heap,              \* the objects buildNestedStructure allocated
  roots,             \* the array buildNestedStructure returned (references)
  flattened,         \* what flattenStructure returned
  elements,          \* the elements querySelectorAll finds, in document order
  headings,          \* what extractHeadingsFromDOM returned
  utilDone,          \* which utilities have been applied
  \* useAutoExtractHeadings
  providedItems,     \* prop items handed to the hook (<<>>: none)
  contentFound,      \* document.querySelector(contentSelector) finds a container
  autoItems,         \* useState: items
  isLoading,         \* useState: isLoading
  extractTimers,     \* pending setTimeout(extractHeadings, 50) of the hook
  autoPhase,         \* "idle", "mounted", "unmounted"
  autoRun,           \* number of the hook's current effect run
  \* bookkeeping for the properties
  passesInFrame,     \* update passes executed in the current/last frame
  eventsSinceFrame,  \* scroll events handled since the last frame began
  frameEvents,       \* scroll events handled before the current/last frame
  mutations,         \* DOM mutations of the content so far
  lastPass           \* the update pass the last step executed, if it did

envVars == <<page, layout, present, contentScrollTop, tocScrollTop, linkHeight, now>>
reactVars == <<phase, items, rendered, activeItems>>
refVars == <<scrollContainerRef, lastActiveIdsRef, lastScrollTopRef,
             lastScrollTimeRef, isFastScrollingRef, scrollTimeoutRef,
             linkPositionsCacheRef, cacheInvalidatedRef>>
domVars == <<transition, strokeDasharray, strokeDashoffset, activeClass>>
hostVars == <<rafQueue, frameLeft, timers, scrollListener, resizeListeners, effectRun>>
histVars == <<passesInFrame, eventsSinceFrame, frameEvents, mutations>>
cssVars == <<tocColumns, level>>
pathVars == <<pathInfo, inThrottle, segmentsTimer>>
progressVars == <<showProgress, progress, progressThrottle>>
hashVars == <<updateHash, urlHash, lastHashRef, historyCalls>>
utilVars == <<flatItems, heap, roots, flattened, elements, headings, utilDone>>
autoVars == <<providedItems, contentFound, autoItems, isLoading, extractTimers,
              autoPhase, autoRun>>
componentVars == <<envVars, cssVars, reactVars, pathVars, refVars, domVars,
                   hostVars, progressVars, hashVars, histVars, lastPass>>
vars == <<envVars, cssVars, reactVars, pathVars, refVars, domVars, hostVars,
          progressVars, hashVars, utilVars, autoVars, histVars, lastPass>>

\* ------------------------------------------------- measuring the content
\* getBoundingClientRect().top of the content scroll container
ContainerRectTop == [split |-> 64, bare |-> 64, shared |-> 0, fullpage |-> 0]

MaxScroll(lay) == Max(0, lay.scrollHeight - lay.clientHeight)

\* getBoundingClientRect() of heading id while the container is scrolled
\* to st: viewport coordinates
HeadingRect(pg, lay, id, st) ==
  Rect(ContainerRectTop[pg] + lay.pos[id].top - st,
       ContainerRectTop[pg] + lay.pos[id].bottom - st)

\* headingTop < viewportHeight * viewportThreshold && headingBottom > -offset
IsVisibleLax(headingTop, headingBottom, viewportHeight) ==
  /\ headingTop * ThresholdDen <= viewportHeight * ThresholdNum
  /\ headingBottom >= -Offset

IsVisibleNoBuffer(headingTop, headingBottom, viewportHeight) ==
  /\ headingTop * ThresholdDen < viewportHeight * ThresholdNum
  /\ headingBottom > 0

IsVisible(headingTop, headingBottom, viewportHeight) ==
  /\ headingTop * ThresholdDen < viewportHeight * ThresholdNum
  /\ headingBottom > -Offset

RECURSIVE VisibleScanUnshift(_, _, _, _, _)
VisibleScanUnshift(its, pg, lay, pres, st) ==
  IF its = <<>> THEN <<>>
  ELSE LET item == Head(its)
           rest == VisibleScanUnshift(Tail(its), pg, lay, pres, st)
           headingTop == lay.pos[item].top - st
           headingBottom == lay.pos[item].bottom - st
       IN IF item \in pres /\ IsVisible(headingTop, headingBottom, lay.clientHeight)
          THEN rest \o <<item>>
          ELSE rest

\* the first items.forEach: push every located item that is visible
RECURSIVE VisibleScan(_, _, _, _, _)
VisibleScan(its, pg, lay, pres, st) ==
  IF its = <<>> THEN <<>>
  ELSE LET item == Head(its)
           rest == VisibleScan(Tail(its), pg, lay, pres, st)
       IN IF item \notin pres THEN rest
          ELSE LET rect == HeadingRect(pg, lay, item, st)
                   headingTop == rect.top - ContainerRectTop[pg]
                   headingBottom == rect.bottom - ContainerRectTop[pg]
               IN IF IsVisible(headingTop, headingBottom, lay.clientHeight)
                  THEN <<item>> \o rest
                  ELSE rest

\* the second items.forEach: the located item above the viewport with the
\* smallest distance; acc is [item, distance], distance -1 standing for
\* Infinity while item is null
RECURSIVE ClosestScan(_, _, _, _, _, _)
ClosestScan(its, pg, lay, pres, st, acc) ==
  IF its = <<>> THEN acc
  ELSE LET item == Head(its)
           headingTop == HeadingRect(pg, lay, item, st).top - ContainerRectTop[pg]
           distance == Abs(headingTop)
           next == IF /\ item \in pres
                      /\ headingTop < 0
                      /\ (acc.item = NULL \/ distance < acc.distance)
                   THEN [item |-> item, distance |-> distance]
                   ELSE acc
       IN ClosestScan(Tail(its), pg, lay, pres, st, next)

FallbackItemsNone(its, pg, lay, pres, st) == <<>>

FallbackItemsFirst(its, pg, lay, pres, st) ==
  IF Len(its) > 0 THEN <<its[1]>> ELSE <<>>

\* if nothing is visible: the closest item above, else items[0]
FallbackItems(its, pg, lay, pres, st) ==
  LET closest == ClosestScan(its, pg, lay, pres, st, [item |-> NULL, distance |-> -1])
  IN IF closest.item # NULL THEN <<closest.item>>
     ELSE IF Len(its) > 0 THEN <<its[1]>>
     ELSE <<>>

\* the resolver with items[0] kept active beside the visible items
ResolveVisibleWithFirst(its, pg, lay, pres, st) ==
  LET visibleItems == VisibleScan(its, pg, lay, pres, st)
  IN IF Len(visibleItems) = 0 THEN FallbackItems(its, pg, lay, pres, st)
     ELSE IF its[1] = visibleItems[1] THEN visibleItems
     ELSE <<its[1]>> \o visibleItems

\* visibleItems at line 156
ResolveVisible(its, pg, lay, pres, st) ==
  LET visibleItems == VisibleScan(its, pg, lay, pres, st)
  IN IF Len(visibleItems) = 0 THEN FallbackItems(its, pg, lay, pres, st)
     ELSE visibleItems

\* --------------------------------------------------- the rendered TOC
\* the refs React attaches while the list is rendered, null otherwise
SvgIndicatorRef(rend) == IF rend # <<>> THEN "indicator" ELSE NULL
TocContainerRef(rend) == IF rend # <<>> THEN "nav" ELSE NULL

\* box of the TOC's own scroller (aside or nav): its client height, the
\* height of the title above the list, and its getBoundingClientRect().top
TocBox == [clientHeight |-> 70, header |-> 10, top |-> 64]

\* findScrollParent(tocContainerRef.current) || tocContainerRef.current
TocScrollContainer(pg) ==
  LET parent == FindScrollParent(pg, "nav")
  IN IF parent # NULL THEN parent ELSE "nav"

\* rows of a list of n links laid out in tocColumns columns, and the row of
\* the i-th link (columns are filled top to bottom, one after the other)
Rows(n) == (n + tocColumns - 1) \div tocColumns
RowOf(i, n) == (i - 1) % Rows(n)

ScrollHeightOf(node, lay, rend, lh) ==
  IF node = "main" THEN lay.scrollHeight
  ELSE Max(TocBox.clientHeight, TocBox.header + Rows(Len(rend)) * lh)

ClientHeightOf(node, lay) ==
  IF node = "main" THEN lay.clientHeight ELSE TocBox.clientHeight

RectTopOf(node, pg) ==
  IF node = "main" THEN ContainerRectTop[pg] ELSE TocBox.top

IndexOf(seq, x) ==
  IF \E i \in 1..Len(seq) : seq[i] = x
  THEN CHOOSE i \in 1..Len(seq) : seq[i] = x
  ELSE 0

\* getBoundingClientRect() of the .pns-list element
ListRectTop(pg, tocScroll) ==
  RectTopOf(TocScrollContainer(pg), pg) + TocBox.header - tocScroll

\* getBoundingClientRect() of the link element of id: a detached element
\* (no longer rendered) measures as the zero rectangle
LinkRect(id, pg, rend, lh, tocScroll) ==
  LET i == IndexOf(rend, id)
      listTop == ListRectTop(pg, tocScroll)
  IN IF i = 0 THEN Rect(0, 0)
     ELSE Rect(listTop + RowOf(i, Len(rend)) * lh,
               listTop + (RowOf(i, Len(rend)) + 1) * lh)

\* the Map built by getLinkPositions, in DOM order of the links
MeasureLinks(pg, rend, lh, tocScroll) ==
  LET listRect == Rect(ListRectTop(pg, tocScroll), ListRectTop(pg, tocScroll))
  IN [i \in 1..Len(rend) |->
        LET linkRect == LinkRect(rend[i], pg, rend, lh, tocScroll)
        IN [id |-> rend[i],
            top |-> linkRect.top - listRect.top,
            bottom |-> linkRect.bottom - listRect.top]]

NoCache == [has |-> FALSE, positions |-> <<>>]

\* the geometry a pass wrote to the indicator (lines 174-179), if it did
NoGeometry == [has |-> FALSE, activeStart |-> 0, activeLength |-> 0, totalLength |-> 0]

\* activeIds.join(',')
RECURSIVE JoinIds(_)
JoinIds(ids) ==
  IF ids = <<>> THEN ""
  ELSE IF Len(ids) = 1 THEN ids[1]
  ELSE ids[1] \o "," \o JoinIds(Tail(ids))

\* `${activeLength} ${totalLength}` and `-${activeStart}`
DashArrayString(activeLength, totalLength) ==
  ToString(activeLength) \o " " \o ToString(totalLength)
DashOffsetString(activeStart) == "-" \o ToString(activeStart)

\* element.scrollTop = v clamps v to the scrollable range
ClampScroll(v, maxScroll) == Max(0, Min(v, Max(0, maxScroll)))

\* velocity > velocityThreshold, velocity = deltaTime > 0 ? deltaScroll / deltaTime : 0
IsFastNonStrict(deltaScroll, deltaTime) ==
  /\ deltaTime > 0
  /\ deltaScroll >= VelocityThreshold * deltaTime

IsFast(deltaScroll, deltaTime) ==
  /\ deltaTime > 0
  /\ deltaScroll > VelocityThreshold * deltaTime

\* a fresh setTimeout handle
NewHandle(pending, ref) ==
  CHOOSE h \in 1..(Cardinality(pending) + 2) :
    /\ h # ref
    /\ \A t \in pending : t.h # h

\* -------------------------------------------------------- usePathSegments
\* useState's initial pathInfo, also what calculatePath resets it to
NoPathInfo ==
  [trackPath |-> "", startY |-> 0, endY |-> 0, activeStartY |-> 0, activeEndY |-> 0]

\* `M 8 ${startY} L 8 ${endY}`
TrackPathJogged(linkPositions) ==
  "M 8 " \o ToString(linkPositions[1].top)
    \o " L " \o ToString(8 * level[linkPositions[Len(linkPositions)].id]) \o " "
    \o ToString(linkPositions[Len(linkPositions)].bottom)

TrackPath(linkPositions) ==
  "M 8 " \o ToString(linkPositions[1].top)
    \o " L 8 " \o ToString(linkPositions[Len(linkPositions)].bottom)

\* lines 297-339: calculatePath for a rendered list rend and the rendered
\* state active; the value it hands to setPathInfo
CalculatePathActiveTrack(rend, active, pg, lh, tocScroll) ==
  IF TocContainerRef(rend) = NULL \/ Len(rend) = 0 THEN NoPathInfo
  ELSE LET linkPositions == MeasureLinks(pg, rend, lh, tocScroll)
           activeIds == {active[i] : i \in 1..Len(active)}
           activePositions == SelectSeq(linkPositions, LAMBDA lp : lp.id \in activeIds)
           track == IF Len(activePositions) > 0 THEN activePositions ELSE linkPositions
       IN [trackPath |-> TrackPath(track),
           startY |-> track[1].top,
           endY |-> track[Len(track)].bottom,
           activeStartY |-> track[1].top,
           activeEndY |-> IF Len(activePositions) > 0
                          THEN track[Len(track)].bottom ELSE track[1].top]

CalculatePath(rend, active, pg, lh, tocScroll) ==
  IF TocContainerRef(rend) = NULL \/ Len(rend) = 0 THEN NoPathInfo
  ELSE LET linkPositions == MeasureLinks(pg, rend, lh, tocScroll)
           startY == linkPositions[1].top
           endY == linkPositions[Len(linkPositions)].bottom
           activeIds == {active[i] : i \in 1..Len(active)}
           activePositions == SelectSeq(linkPositions, LAMBDA lp : lp.id \in activeIds)
       IN [trackPath |-> TrackPath(linkPositions),
           startY |-> startY,
           endY |-> endY,
           activeStartY |-> IF Len(activePositions) > 0
                            THEN activePositions[1].top ELSE startY,
           activeEndY |-> IF Len(activePositions) > 0
                          THEN activePositions[Len(activePositions)].bottom
                          ELSE startY]

\* lines 351-360: the pathData memo
PathData(info) ==
  LET totalLength == info.endY - info.startY
  IN IF totalLength <= 0
     THEN [totalLength |-> 0, activeStart |-> 0, activeLength |-> 0]
     ELSE [totalLength |-> totalLength,
           activeStart |-> info.activeStartY - info.startY,
           activeLength |-> info.activeEndY - info.activeStartY]

\* the activeDashArray / activeDashOffset memo of the component: the
\* strokeDasharray and strokeDashoffset attributes it renders
ActiveDashSwapped(pathData) ==
  IF pathData.totalLength <= 0
  THEN [activeDashArray |-> "0", activeDashOffset |-> "0"]
  ELSE [activeDashArray |-> ToString(pathData.totalLength) \o " "
                              \o ToString(pathData.activeLength),
        activeDashOffset |-> "-" \o ToString(pathData.activeStart)]

ActiveDash(pathData) ==
  IF pathData.totalLength <= 0
  THEN [activeDashArray |-> "0", activeDashOffset |-> "0"]
  ELSE [activeDashArray |-> ToString(pathData.activeLength) \o " "
                              \o ToString(pathData.totalLength),
        activeDashOffset |-> "-" \o ToString(pathData.activeStart)]

\* ----------------------------------- useReadingProgress and useHashUpdate
\* Math.round(num / den) for num >= 0 and den > 0
RoundHalfUp(num, den) == (2 * num + den) \div (2 * den)

\* findScrollParent(document.querySelector(contentSelector)): the content
\* element is the article
ProgressContainer == FindScrollParent(page, "article")

\* hooks.js 382-389: the value updateProgress leaves in the progress state
\* when it reads the scroll offset st
ReadProgress(st) ==
  LET maxScroll == layout.scrollHeight - layout.clientHeight
  IN IF maxScroll > 0 THEN Min(100, RoundHalfUp(st * 100, maxScroll))
     ELSE progress

\* hooks.js 381-390 with utils.js 187-196: the throttled updateProgress
UpdateProgress(st) ==
  IF ~progressThrottle
  THEN /\ progress' = ReadProgress(st)
       /\ progressThrottle' = TRUE
  ELSE UNCHANGED <<progress, progressThrottle>>

\* utils.ts 153-166: calculateReadingProgress, as the fraction num / den
CalculateReadingProgress(scrollTop, scrollHeight, clientHeight) ==
  LET maxScroll == scrollHeight - clientHeight
  IN IF maxScroll <= 0 THEN [num |-> 100, den |-> 1]
     ELSE IF scrollTop * 100 > 100 * maxScroll THEN [num |-> 100, den |-> 1]
     ELSE IF scrollTop * 100 < 0 THEN [num |-> 0, den |-> 1]
     ELSE [num |-> scrollTop * 100, den |-> maxScroll]

\* the calls of window.history methods, of which the last two are kept
HistoryLog(calls, call) ==
  IF Len(calls) < 2 THEN Append(calls, call) ELSE <<calls[2], call>>

\* hooks.js 402-413: the effect of useHashUpdate for the rendered activeItems
UseHashUpdateAlways(active, enabled) ==
  IF ~enabled \/ active = <<>>
  THEN UNCHANGED <<urlHash, lastHashRef, historyCalls>>
  ELSE /\ lastHashRef' = "#" \o active[1]
       /\ urlHash' = "#" \o active[1]
       /\ historyCalls' = HistoryLog(historyCalls,
                             [method |-> "replaceState", hash |-> "#" \o active[1]])

UseHashUpdate(active, enabled) ==
  IF ~enabled \/ active = <<>>
  THEN UNCHANGED <<urlHash, lastHashRef, historyCalls>>
  ELSE LET firstActiveId == active[1]
           newHash == "#" \o firstActiveId
       IN IF newHash # lastHashRef
          THEN /\ lastHashRef' = newHash
               /\ urlHash' = newHash
               /\ historyCalls' = HistoryLog(historyCalls,
                                     [method |-> "replaceState", hash |-> newHash])
          ELSE UNCHANGED <<urlHash, lastHashRef, historyCalls>>

\* ProgressNavScrollspy.tsx 72-75: the calls of onActiveChange after the
\* render that a pass caused; the effect depends on the identity of the
\* activeItems array
OnActiveChange(s) ==
  IF s.activeItemsFresh THEN <<s.activeItems>> ELSE <<>>

\* the effects of the component that run after the render a pass caused
RenderEffects(s) ==
  /\ updateHash' = updateHash
  /\ IF s.activeItemsFresh
     THEN UseHashUpdate(s.activeItems, updateHash)
     ELSE UNCHANGED <<urlHash, lastHashRef, historyCalls>>

\* ------------------------------ buildNestedStructure and flattenStructure
\* JavaScript objects live in a heap (a sequence of objects, addressed by
\* their index); arrays of items hold references.  The input items of a
\* flat list of n items are the objects 1..n.
ItemLevels == 1..6

FlatLists ==
  UNION {{[i \in 1..n |-> [id |-> "h" \o ToString(i),
                           text |-> "T" \o ToString(i),
                           level |-> f[i]]] : f \in [1..n -> ItemLevels]}
           : n \in 0..MaxItems}

\* the object of an input item: it has no children
InputObject(item) ==
  [id |-> item.id, text |-> item.text, level |-> item.level, children |-> <<>>]

\* utils.ts 114-116: pop the items at the same or a lower level
RECURSIVE PopStack(_, _, _)
PopStack(h, stack, lvl) ==
  IF stack # <<>> /\ h[stack[Len(stack)]].level >= lvl
  THEN PopStack(h, SubSeq(stack, 1, Len(stack) - 1), lvl)
  ELSE stack

\* utils.ts 110-127: one iteration of the loop over the items, on
\* st = [heap, result, stack]
BuildOne(st, ref) ==
  LET item == st.heap[ref]
      heap1 == Append(st.heap, [item EXCEPT !.children = <<>>])
      newItem == Len(heap1)
      stack1 == PopStack(heap1, st.stack, item.level)
  IN IF stack1 = <<>>
     THEN [heap |-> heap1,
           result |-> Append(st.result, newItem),
           stack |-> <<newItem>>]
     ELSE [heap |-> [heap1 EXCEPT ![stack1[Len(stack1)]].children =
                                     Append(@, newItem)],
           result |-> st.result,
           stack |-> Append(stack1, newItem)]

RECURSIVE BuildLoop(_, _)
BuildLoop(st, refs) ==
  IF refs = <<>> THEN st
  ELSE BuildLoop(BuildOne(st, Head(refs)), Tail(refs))

\* utils.ts 103-130: the heap after the call and the array it returns
BuildNestedStructure(h, refs) ==
  IF Len(refs) = 0 THEN [heap |-> h, result |-> <<>>]
  ELSE LET st == BuildLoop([heap |-> h, result |-> <<>>, stack |-> <<>>], refs)
       IN [heap |-> st.heap, result |-> st.result]

\* utils.ts 138-145: traverse
RECURSIVE TraverseChildrenFirst(_, _)
TraverseChildrenFirst(h, list) ==
  IF list = <<>> THEN <<>>
  ELSE (IF Len(h[Head(list)].children) > 0
        THEN TraverseChildrenFirst(h, h[Head(list)].children)
        ELSE <<>>)
       \o <<Head(list)>>
       \o TraverseChildrenFirst(h, Tail(list))

RECURSIVE Traverse(_, _)
Traverse(h, list) ==
  IF list = <<>> THEN <<>>
  ELSE <<Head(list)>>
       \o (IF Len(h[Head(list)].children) > 0
           THEN Traverse(h, h[Head(list)].children)
           ELSE <<>>)
       \o Traverse(h, Tail(list))

\* utils.ts 135-148
FlattenStructure(h, list) == Traverse(h, list)

\* --------------------------------- generateSlug and extractHeadingsFromDOM
\* Strings that the code takes apart are sequences of characters.  The
\* characters of the texts and ids: a capital and a small letter, a digit,
\* the space, the hyphen and a special character.
WordChars == {"A", "a", "1"}
WhiteSpace == {" "}

ToLowerCase(text) == [i \in 1..Len(text) |-> IF text[i] = "A" THEN "a" ELSE text[i]]

\* replace(/[^\w\s-]/g, '')
RemoveSpecial(text) ==
  SelectSeq(text, LAMBDA c : c \in WordChars \cup WhiteSpace \cup {"-"})

\* replace(/\s+/g, '-'): every run of white space becomes one hyphen
RECURSIVE SpacesToHyphen(_)
SpacesToHyphen(text) ==
  IF text = <<>> THEN <<>>
  ELSE IF Head(text) \in WhiteSpace
       THEN IF Len(text) > 1 /\ text[2] \in WhiteSpace
            THEN SpacesToHyphen(Tail(text))
            ELSE <<"-">> \o SpacesToHyphen(Tail(text))
       ELSE <<Head(text)>> \o SpacesToHyphen(Tail(text))

\* replace(/-+/g, '-')
RECURSIVE CollapseHyphens(_)
CollapseHyphens(text) ==
  IF text = <<>> THEN <<>>
  ELSE IF Head(text) = "-" /\ Len(text) > 1 /\ text[2] = "-"
       THEN CollapseHyphens(Tail(text))
       ELSE <<Head(text)>> \o CollapseHyphens(Tail(text))

\* replace(/^-|-$/g, ''): one leading and one trailing hyphen
TrimHyphen(text) ==
  LET t1 == IF text # <<>> /\ Head(text) = "-" THEN Tail(text) ELSE text
  IN IF t1 # <<>> /\ t1[Len(t1)] = "-" THEN SubSeq(t1, 1, Len(t1) - 1) ELSE t1

\* utils.ts 6-13
GenerateSlug(text) ==
  TrimHyphen(CollapseHyphens(SpacesToHyphen(RemoveSpecial(ToLowerCase(text)))))

\* String.prototype.trim
RECURSIVE Trim(_)
Trim(text) ==
  IF text # <<>> /\ Head(text) \in WhiteSpace THEN Trim(Tail(text))
  ELSE IF text # <<>> /\ text[Len(text)] \in WhiteSpace
       THEN Trim(SubSeq(text, 1, Len(text) - 1))
       ELSE text

\* utils.ts 46-51: the id made unique by appending -1, -2, ...
RECURSIVE UniqueId(_, _, _)
UniqueId(baseId, counter, usedIds) ==
  IF (baseId \o <<"-", ToString(counter)>>) \in usedIds
  THEN UniqueId(baseId, counter + 1, usedIds)
  ELSE baseId \o <<"-", ToString(counter)>>

\* the elements a selector may match: h2 elements and elements that are not
\* headings (level 0), with or without an id, with their text content
HeadingLevels == {0, 2}
ElementIds == {<<>>, <<"a">>, <<"a", "-", "1">>}
ElementTexts == {<<"A">>, <<" ", "a", " ", " ", "1", "!">>, <<"a">>, <<" ">>}
MinLevel == 1
MaxLevel == 6

ElementLists ==
  UNION {[1..n -> [level : HeadingLevels, id : ElementIds, text : ElementTexts]]
           : n \in 0..MaxElements}

\* utils.ts 30-55: the callback of elements.forEach for the i-th element, on
\* st = [headings, usedIds, elements]; an item remembers its element
ExtractOne(st, i) ==
  LET element == st.elements[i]
      text == Trim(element.text)
      baseId == IF element.id # <<>> THEN element.id ELSE GenerateSlug(text)
      id == IF baseId \in st.usedIds THEN UniqueId(baseId, 1, st.usedIds) ELSE baseId
  IN IF element.level = 0 THEN st
     ELSE IF element.level < MinLevel \/ element.level > MaxLevel THEN st
     ELSE IF text = <<>> THEN st
     ELSE [headings |-> Append(st.headings,
                               [id |-> id, text |-> text, level |-> element.level,
                                element |-> i]),
           usedIds |-> st.usedIds \cup {id},
           elements |-> IF element.id = <<>>
                        THEN [st.elements EXCEPT ![i].id = id]
                        ELSE st.elements]

RECURSIVE ExtractLoop(_, _)
ExtractLoop(st, i) ==
  IF i > Len(st.elements) THEN st
  ELSE ExtractLoop(ExtractOne(st, i), i + 1)

\* utils.ts 18-59
ExtractHeadingsFromDOM(els) ==
  ExtractLoop([headings |-> <<>>, usedIds |-> {}, elements |-> els], 1)

\* ------------------------------------------------------ updateActiveItems
\* The update pass is a function of a record s of everything it reads and
\* writes (fields named after the variables), the catalog `its` its closure
\* captured, and the environment read through the unprimed page, layout,
\* present, linkHeight and now.

\* A value the pass computes once and then reads many times is bound once,
\* as the only element of a singleton set: CHOOSE r \in {e(x) : x \in {v}}.

\* the stages of a pass, in the order in which it went through them
Step(s, stage) == [s EXCEPT !.steps = Append(@, stage)]

\* lines 85-96: velocity tracking
TrackVelocity(s) ==
  LET currentScrollTop == s.contentScrollTop
      currentTime == now
      deltaScroll == Abs(currentScrollTop - s.lastScrollTopRef)
      deltaTime == currentTime - s.lastScrollTimeRef
  IN [s EXCEPT !.isFastScrollingRef = IsFast(deltaScroll, deltaTime),
               !.lastScrollTopRef = currentScrollTop,
               !.lastScrollTimeRef = currentTime]

\* lines 98-114: transition suppression and the debounced re-enable timer
DebounceReenableNoCancel(s, wasFastScrolling) ==
  IF SvgIndicatorRef(s.rendered) = NULL THEN s
  ELSE LET h == NewHandle(s.timers, s.scrollTimeoutRef)
       IN [s EXCEPT !.transition = IF s.isFastScrollingRef /\ ~wasFastScrolling
                                   THEN "none" ELSE @,
                    !.timers = @ \cup {[h |-> h, due |-> now + ReenableDelay]},
                    !.scrollTimeoutRef = h]

DebounceReenable(s, wasFastScrolling) ==
  IF SvgIndicatorRef(s.rendered) = NULL THEN s
  ELSE LET cleared == IF s.scrollTimeoutRef # 0
                      THEN {t \in s.timers : t.h # s.scrollTimeoutRef}
                      ELSE s.timers
           h == NewHandle(cleared, s.scrollTimeoutRef)
       IN [s EXCEPT !.transition = IF s.isFastScrollingRef /\ ~wasFastScrolling
                                   THEN "none" ELSE @,
                    !.timers = cleared \cup {[h |-> h, due |-> now + ReenableDelay]},
                    !.scrollTimeoutRef = h]

\* scrollTop of the TOC's scroll container, which on the shared page is the
\* content scroll container itself
TocScrollerTop(s) ==
  IF TocScrollContainer(page) = "main" THEN s.contentScrollTop ELSE s.tocScrollTop

\* lines 45-74: getLinkPositions, for a rendered list; the record s with the
\* cache refreshed when it was invalidated or empty
GetLinkPositionsSticky(s) ==
  IF s.linkPositionsCacheRef.has THEN s
  ELSE [s EXCEPT !.linkPositionsCacheRef =
                    [has |-> TRUE,
                     positions |-> MeasureLinks(page, s.rendered, linkHeight, TocScrollerTop(s))],
                 !.cacheInvalidatedRef = FALSE]

\* getLinkPositions without the cache: every read measures the links
GetLinkPositionsUncached(s) ==
  [s EXCEPT !.linkPositionsCacheRef =
               [has |-> TRUE,
                positions |-> MeasureLinks(page, s.rendered, linkHeight, TocScrollerTop(s))],
            !.cacheInvalidatedRef = FALSE,
            !.measured = TRUE]

GetLinkPositions(s) ==
  IF ~s.cacheInvalidatedRef /\ s.linkPositionsCacheRef.has THEN s
  ELSE [s EXCEPT !.linkPositionsCacheRef =
                    [has |-> TRUE,
                     positions |-> MeasureLinks(page, s.rendered, linkHeight, TocScrollerTop(s))],
                 !.cacheInvalidatedRef = FALSE,
                 !.measured = TRUE]

\* activeIds.map(id => positions.get(id)).filter(Boolean)
RECURSIVE ActivePositionsReversed(_, _)
ActivePositionsReversed(activeIds, positions) ==
  IF activeIds = <<>> THEN <<>>
  ELSE LET hit == SelectSeq(positions, LAMBDA p : p.id = Head(activeIds))
       IN ActivePositionsReversed(Tail(activeIds), positions)
          \o (IF hit = <<>> THEN <<>> ELSE <<hit[1]>>)

RECURSIVE ActivePositions(_, _)
ActivePositions(activeIds, positions) ==
  IF activeIds = <<>> THEN <<>>
  ELSE LET hit == SelectSeq(positions, LAMBDA p : p.id = Head(activeIds))
       IN (IF hit = <<>> THEN <<>> ELSE <<hit[1]>>)
          \o ActivePositions(Tail(activeIds), positions)

SetTocScrollerTop(s, v) ==
  LET sc == TocScrollContainer(page)
      maxScroll == ScrollHeightOf(sc, layout, s.rendered, linkHeight)
                     - ClientHeightOf(sc, layout)
      w == ClampScroll(v, maxScroll)
  IN IF sc = "main" THEN [s EXCEPT !.contentScrollTop = w]
     ELSE [s EXCEPT !.tocScrollTop = w]

\* lines 191-226: keep the active range visible in the TOC
AutoScrollTocBottomFirst(s, activePositions) ==
  LET sc == TocScrollContainer(page)
      tocMaxScroll == ScrollHeightOf(sc, layout, s.rendered, linkHeight)
                        - ClientHeightOf(sc, layout)
      docMaxScroll == layout.scrollHeight - layout.clientHeight
      docScrollTop == s.contentScrollTop
      tocTop == RectTopOf(sc, page)
      tocBottom == tocTop + ClientHeightOf(sc, layout)
      first == activePositions[1].id
      last == activePositions[Len(activePositions)].id
      firstActiveRect == LinkRect(first, page, s.rendered, linkHeight, TocScrollerTop(s))
      lastActiveRect == LinkRect(last, page, s.rendered, linkHeight, TocScrollerTop(s))
  IN IF docScrollTop >= docMaxScroll - 1 THEN SetTocScrollerTop(s, tocMaxScroll)
     ELSE IF docScrollTop <= 0 THEN SetTocScrollerTop(s, 0)
     ELSE IF firstActiveRect.top < tocTop + TocScrollPadding
       THEN SetTocScrollerTop(s, TocScrollerTop(s)
                                   + (firstActiveRect.top - tocTop - TocScrollPadding))
     ELSE IF lastActiveRect.bottom > tocBottom - TocScrollPadding
       THEN SetTocScrollerTop(s, TocScrollerTop(s)
                                   + (lastActiveRect.bottom - tocBottom + TocScrollPadding))
     ELSE s

AutoScrollTocBoth(s, activePositions) ==
  LET sc == TocScrollContainer(page)
      tocMaxScroll == ScrollHeightOf(sc, layout, s.rendered, linkHeight)
                        - ClientHeightOf(sc, layout)
      docMaxScroll == layout.scrollHeight - layout.clientHeight
      docScrollTop == s.contentScrollTop
      tocTop == RectTopOf(sc, page)
      tocBottom == tocTop + ClientHeightOf(sc, layout)
      first == activePositions[1].id
      last == activePositions[Len(activePositions)].id
      firstActiveRect == LinkRect(first, page, s.rendered, linkHeight, TocScrollerTop(s))
      lastActiveRect == LinkRect(last, page, s.rendered, linkHeight, TocScrollerTop(s))
  IN IF docScrollTop <= 0 THEN SetTocScrollerTop(s, 0)
     ELSE IF docScrollTop >= docMaxScroll - 1 THEN SetTocScrollerTop(s, tocMaxScroll)
     ELSE IF lastActiveRect.bottom > tocBottom - TocScrollPadding
       THEN SetTocScrollerTop(s, TocScrollerTop(s)
                                   + (lastActiveRect.bottom - tocBottom + TocScrollPadding))
     ELSE IF firstActiveRect.top < tocTop + TocScrollPadding
       THEN SetTocScrollerTop(s, TocScrollerTop(s)
                                   + (firstActiveRect.top - tocTop - TocScrollPadding))
     ELSE s

AutoScrollTocOffsetPadding(s, activePositions) ==
  LET sc == TocScrollContainer(page)
      tocMaxScroll == ScrollHeightOf(sc, layout, s.rendered, linkHeight)
                        - ClientHeightOf(sc, layout)
      docMaxScroll == layout.scrollHeight - layout.clientHeight
      docScrollTop == s.contentScrollTop
      tocTop == RectTopOf(sc, page)
      tocBottom == tocTop + ClientHeightOf(sc, layout)
      first == activePositions[1].id
      last == activePositions[Len(activePositions)].id
      firstActiveRect == LinkRect(first, page, s.rendered, linkHeight, TocScrollerTop(s))
      lastActiveRect == LinkRect(last, page, s.rendered, linkHeight, TocScrollerTop(s))
  IN IF docScrollTop <= 0 THEN SetTocScrollerTop(s, 0)
     ELSE IF docScrollTop >= docMaxScroll - 1 THEN SetTocScrollerTop(s, tocMaxScroll)
     ELSE IF firstActiveRect.top < tocTop + Offset
       THEN SetTocScrollerTop(s, TocScrollerTop(s)
                                   + (firstActiveRect.top - tocTop - Offset))
     ELSE IF lastActiveRect.bottom > tocBottom - Offset
       THEN SetTocScrollerTop(s, TocScrollerTop(s)
                                   + (lastActiveRect.bottom - tocBottom + Offset))
     ELSE s

AutoScrollToc(s, activePositions) ==
  LET sc == TocScrollContainer(page)
      tocMaxScroll == ScrollHeightOf(sc, layout, s.rendered, linkHeight)
                        - ClientHeightOf(sc, layout)
      docMaxScroll == layout.scrollHeight - layout.clientHeight
      docScrollTop == s.contentScrollTop
      tocTop == RectTopOf(sc, page)
      tocBottom == tocTop + ClientHeightOf(sc, layout)
      first == activePositions[1].id
      last == activePositions[Len(activePositions)].id
      firstActiveRect == LinkRect(first, page, s.rendered, linkHeight, TocScrollerTop(s))
      lastActiveRect == LinkRect(last, page, s.rendered, linkHeight, TocScrollerTop(s))
  IN IF docScrollTop <= 0 THEN SetTocScrollerTop(s, 0)
     ELSE IF docScrollTop >= docMaxScroll - 1 THEN SetTocScrollerTop(s, tocMaxScroll)
     ELSE IF firstActiveRect.top < tocTop + TocScrollPadding
       THEN SetTocScrollerTop(s, TocScrollerTop(s)
                                   + (firstActiveRect.top - tocTop - TocScrollPadding))
     ELSE IF lastActiveRect.bottom > tocBottom - TocScrollPadding
       THEN SetTocScrollerTop(s, TocScrollerTop(s)
                                   + (lastActiveRect.bottom - tocBottom + TocScrollPadding))
     ELSE s

\* lines 157-230: the direct DOM update of the indicator and the links
UpdateIndicator(s, activeIds) ==
  LET activeIdsStr == JoinIds(activeIds)
  IN IF \/ SvgIndicatorRef(s.rendered) = NULL
        \/ TocContainerRef(s.rendered) = NULL
        \/ activeIdsStr = s.lastActiveIdsRef
     THEN s
     ELSE CHOOSE r \in
       {LET allLinks == s1.linkPositionsCacheRef.positions
            trackStart == allLinks[1].top
            trackEnd == allLinks[Len(allLinks)].bottom
            totalLength == trackEnd - trackStart
            activePositions == ActivePositions(activeIds, allLinks)
            activeStart == activePositions[1].top - trackStart
            activeEnd == activePositions[Len(activePositions)].bottom - trackStart
            activeLength == activeEnd - activeStart
            s2 == IF Len(activePositions) > 0
                  THEN [s1 EXCEPT !.strokeDasharray = DashArrayString(activeLength, totalLength),
                                  !.strokeDashoffset = DashOffsetString(activeStart),
                                  !.steps = Append(@, "geometry"),
                                  !.written = [has |-> TRUE,
                                               activeStart |-> activeStart,
                                               activeLength |-> activeLength,
                                               totalLength |-> totalLength]]
                  ELSE s1
            linked == {allLinks[i].id : i \in 1..Len(allLinks)}
            inRender == {s.rendered[i] : i \in 1..Len(s.rendered)}
            active == {activeIds[i] : i \in 1..Len(activeIds)}
            s3 == [s2 EXCEPT !.activeClass =
                     ((@ \ linked) \cup (linked \cap active)) \cap inRender]
            s4 == IF Len(activePositions) > 0
                  THEN Step(AutoScrollToc(s3, activePositions), "synchronize")
                  ELSE s3
        IN [(IF Len(allLinks) > 0 THEN s4 ELSE s1)
              EXCEPT !.lastActiveIdsRef = activeIdsStr]
          : s1 \in {GetLinkPositions(s)}} : TRUE

\* setActiveItems(visibleItems): React drops updates of an unmounted component;
\* visibleItems is a new array in every pass, so a mounted component renders
\* again and activeItems has a new identity
SetActiveItems(s, visibleItems) ==
  Step(IF s.phase = "mounted"
       THEN [s EXCEPT !.activeItems = visibleItems, !.activeItemsFresh = TRUE]
       ELSE s,
       "setActiveItems")

\* lines 80-233
UpdateActiveItemsIndicatorFirst(s, its) ==
  IF s.scrollContainerRef = NULL THEN s
  ELSE CHOOSE r \in
         {SetActiveItems(Step(UpdateIndicator(s2, s.activeItems), "resolve"),
                         visibleItems) :
            s2 \in {DebounceReenable(TrackVelocity(s), s.isFastScrollingRef)},
            visibleItems \in {ResolveVisible(its, page, layout, present,
                                             s.contentScrollTop)}} : TRUE

UpdateActiveItems(s, its) ==
  IF s.scrollContainerRef = NULL THEN s
  ELSE CHOOSE r \in
         {SetActiveItems(UpdateIndicator(Step(s2, "resolve"), visibleItems),
                         visibleItems) :
            s2 \in {DebounceReenable(TrackVelocity(s), s.isFastScrollingRef)},
            visibleItems \in {ResolveVisible(its, page, layout, present,
                                             s.contentScrollTop)}} : TRUE

\* ------------------------------------------------------------ the machine
\* the record an update pass works on, and its write-back
\* what a step that executes an update pass records of it: the catalog of
\* its closure, what it measured, whether it found the scroll container and
\* React took its state update, and whether its effect run was still current
NoPass ==
  [ran |-> FALSE, its |-> <<>>, scrollTop |-> 0, present |-> {},
   completed |-> FALSE, stale |-> FALSE,
   tocScrollTop |-> 0, lastActiveIds |-> "", cacheInvalidated |-> FALSE,
   cache |-> NoCache, written |-> NoGeometry,
   lastScrollTop |-> 0, lastScrollTime |-> 0, isFastScrolling |-> FALSE,
   timers |-> {}, steps |-> <<>>,
   activeItems |-> <<>>, onActiveChange |-> <<>>, measured |-> FALSE]

PassRecord(its, after, stale) ==
  [ran |-> TRUE, its |-> its, scrollTop |-> contentScrollTop, present |-> present,
   completed |-> (after.scrollContainerRef # NULL /\ after.phase = "mounted"),
   stale |-> stale,
   tocScrollTop |-> tocScrollTop, lastActiveIds |-> lastActiveIdsRef,
   cacheInvalidated |-> cacheInvalidatedRef, cache |-> linkPositionsCacheRef,
   written |-> after.written,
   lastScrollTop |-> lastScrollTopRef, lastScrollTime |-> lastScrollTimeRef,
   isFastScrolling |-> isFastScrollingRef, timers |-> timers,
   steps |-> after.steps,
   activeItems |-> activeItems, onActiveChange |-> OnActiveChange(after),
   measured |-> after.measured]

Cur ==
  [phase |-> phase, rendered |-> rendered, activeItems |-> activeItems,
   contentScrollTop |-> contentScrollTop, tocScrollTop |-> tocScrollTop,
   scrollContainerRef |-> scrollContainerRef, lastActiveIdsRef |-> lastActiveIdsRef,
   lastScrollTopRef |-> lastScrollTopRef, lastScrollTimeRef |-> lastScrollTimeRef,
   isFastScrollingRef |-> isFastScrollingRef, scrollTimeoutRef |-> scrollTimeoutRef,
   linkPositionsCacheRef |-> linkPositionsCacheRef,
   cacheInvalidatedRef |-> cacheInvalidatedRef,
   transition |-> transition, strokeDasharray |-> strokeDasharray,
   strokeDashoffset |-> strokeDashoffset, activeClass |-> activeClass,
   timers |-> timers, written |-> NoGeometry, steps |-> <<>>,
   activeItemsFresh |-> FALSE, measured |-> FALSE]

Commit(s) ==
  /\ phase' = s.phase
  /\ rendered' = s.rendered
  /\ activeItems' = s.activeItems
  /\ contentScrollTop' = s.contentScrollTop
  /\ tocScrollTop' = s.tocScrollTop
  /\ scrollContainerRef' = s.scrollContainerRef
  /\ lastActiveIdsRef' = s.lastActiveIdsRef
  /\ lastScrollTopRef' = s.lastScrollTopRef
  /\ lastScrollTimeRef' = s.lastScrollTimeRef
  /\ isFastScrollingRef' = s.isFastScrollingRef
  /\ scrollTimeoutRef' = s.scrollTimeoutRef
  /\ linkPositionsCacheRef' = s.linkPositionsCacheRef
  /\ cacheInvalidatedRef' = s.cacheInvalidatedRef
  /\ transition' = s.transition
  /\ strokeDasharray' = s.strokeDasharray
  /\ strokeDashoffset' = s.strokeDashoffset
  /\ activeClass' = s.activeClass
  /\ timers' = s.timers

\* heading levels of the catalog: all top-level, or s2 and s3 nested under s1
LevelsFlat == [i \in AllIds |-> 1]
LevelsNested == [i \in AllIds |-> IF i = "s1" THEN 1 ELSE 2]

\* the state before React mounts the component, in one of the given pages
\* with one of the given heading layouts, list column counts and levels
InitIn(pages, layouts, columns, levels) ==
  /\ page \in pages
  /\ layout \in layouts
  /\ tocColumns \in columns
  /\ level \in levels
  /\ pathInfo = NoPathInfo
  /\ inThrottle = FALSE
  /\ segmentsTimer = FALSE
  /\ present = AllIds
  /\ contentScrollTop = 0
  /\ tocScrollTop = 0
  /\ linkHeight = 30
  /\ now = 0
  /\ phase = "idle"
  /\ items = <<>>
  /\ rendered = <<>>
  /\ activeItems = <<>>
  /\ scrollContainerRef = NULL
  /\ lastActiveIdsRef = ""
  /\ lastScrollTopRef = 0
  /\ lastScrollTimeRef = 0
  /\ isFastScrollingRef = FALSE
  /\ scrollTimeoutRef = 0
  /\ linkPositionsCacheRef = NoCache
  /\ cacheInvalidatedRef = TRUE
  /\ transition = "rendered"
  /\ strokeDasharray = ""
  /\ strokeDashoffset = ""
  /\ activeClass = {}
  /\ rafQueue = <<>>
  /\ frameLeft = 0
  /\ timers = {}
  /\ scrollListener = 0
  /\ resizeListeners = {}
  /\ effectRun = 0
  /\ passesInFrame = 0
  /\ eventsSinceFrame = 0
  /\ frameEvents = 0
  /\ mutations = 0
  /\ lastPass = NoPass

\* the props and state of useReadingProgress and useHashUpdate before the
\* component mounts, and the URL the page was loaded with
InitHooks(progressFlags, hashFlags, hashes) ==
  /\ showProgress \in progressFlags
  /\ progress = 0
  /\ progressThrottle = FALSE
  /\ updateHash \in hashFlags
  /\ urlHash \in hashes
  /\ lastHashRef = ""
  /\ historyCalls = <<>>

\* the utilities are not applied
InitUtil ==
  /\ flatItems = <<>>
  /\ heap = <<>>
  /\ roots = <<>>
  /\ flattened = <<>>
  /\ elements = <<>>
  /\ headings = <<>>
  /\ utilDone = {}

\* hooks.js 261-262: useAutoExtractHeadings before its first render
InitAutoIn(found) ==
  /\ providedItems = <<>>
  /\ contentFound \in found
  /\ autoItems = <<>>
  /\ isLoading = TRUE
  /\ extractTimers = {}
  /\ autoPhase = "idle"
  /\ autoRun = 0

InitAuto == InitAutoIn({FALSE})

\* the defaults of the props: showProgress = false, updateHash = false
InitDefaults == InitHooks({FALSE}, {FALSE}, {""}) /\ InitUtil /\ InitAuto

\* lines 37-44 and 75-79, 238-243: the effect body for catalog cat, run on
\* the record s of the freshly rendered component
RunEffect(s, cat) ==
  LET firstHeading == IF cat[1] \in present THEN "heading" ELSE NULL
      scrollContainer == FindScrollParent(page, firstHeading)
  IN UpdateActiveItems([s EXCEPT !.scrollContainerRef = scrollContainer], cat)

\* lines 244-252: the effect's cleanup; the listeners are host state
CleanupKeepTimer(s) == s

Cleanup(s) ==
  IF s.scrollTimeoutRef # 0
  THEN [s EXCEPT !.timers = {t \in @ : t.h # s.scrollTimeoutRef}]
  ELSE s

\* React mounts the component with a non-empty catalog: first render, then
\* the effect
Mount(cat) ==
  /\ phase = "idle"
  /\ \E s \in {RunEffect([Cur EXCEPT !.phase = "mounted", !.rendered = cat], cat)} :
        /\ Commit(s)
        /\ scrollListener' = IF s.scrollContainerRef # NULL THEN effectRun + 1 ELSE 0
        /\ lastPass' = PassRecord(cat, s, FALSE)
        /\ pathInfo' = CalculatePath(s.rendered, s.activeItems, page, linkHeight,
                                     s.tocScrollTop)
        \* hooks.js 374-392: the effect of useReadingProgress registers its
        \* listener and calls the (fresh) throttled updateProgress once
        /\ IF showProgress /\ ProgressContainer # NULL
           THEN /\ progress' = ReadProgress(s.contentScrollTop)
                /\ progressThrottle' = TRUE
           ELSE UNCHANGED <<progress, progressThrottle>>
        /\ RenderEffects(s)
  /\ showProgress' = showProgress
  /\ inThrottle' = FALSE
  /\ segmentsTimer' = TRUE
  /\ items' = cat
  /\ effectRun' = effectRun + 1
  /\ resizeListeners' = resizeListeners \cup {effectRun + 1}
  /\ UNCHANGED <<utilVars, autoVars,
                 page, layout, present, linkHeight, now, cssVars, rafQueue,
                 frameLeft, histVars>>

\* line 251: the cleanup of effect run `run` removes its handleResize from
\* the window
RemoveResizeListenerNever(listeners, run) == listeners

RemoveResizeListener(listeners, run) == listeners \ {run}

\* a dependency of the effect changes: React re-renders the links of catalog
\* cat, runs the cleanup of the previous effect run and then the effect again
Rerun(cat) ==
  /\ phase = "mounted"
  /\ frameLeft = 0
  /\ effectRun <= MaxReruns
  /\ LET old == {rendered[i] : i \in 1..Len(rendered)}
         new == {cat[i] : i \in 1..Len(cat)}
         act == {activeItems[i] : i \in 1..Len(activeItems)}
         s0 == [Cur EXCEPT !.rendered = cat,
                           !.activeClass = (@ \cap new) \cup ((new \ old) \cap act)]
     IN \E s \in {RunEffect(Cleanup(s0), cat)} :
        /\ Commit(s)
        /\ scrollListener' = IF s.scrollContainerRef # NULL THEN effectRun + 1 ELSE 0
        /\ lastPass' = PassRecord(cat, s, FALSE)
        /\ pathInfo' = CalculatePath(s.rendered, s.activeItems, page, linkHeight,
                                     s.tocScrollTop)
        /\ RenderEffects(s)
  /\ inThrottle' = FALSE
  /\ segmentsTimer' = TRUE
  /\ items' = cat
  /\ effectRun' = effectRun + 1
  /\ resizeListeners' = RemoveResizeListener(resizeListeners, effectRun) \cup {effectRun + 1}
  /\ UNCHANGED <<progressVars, utilVars, autoVars,
                 page, layout, present, linkHeight, now, cssVars, rafQueue,
                 frameLeft, histVars>>

\* the catalog changes
ChangeItems(cat) == cat # items /\ Rerun(cat)

\* an option in the effect's dependency list changes identity (a new ref
\* object, for one) while the catalog stays
ChangeOptions == Rerun(items)

\* React unmounts the component: the refs are detached, then the cleanup runs
Unmount ==
  /\ lastPass' = NoPass
  /\ phase = "mounted"
  /\ frameLeft = 0
  /\ \E s \in {Cleanup([Cur EXCEPT !.phase = "unmounted", !.rendered = <<>>,
                                       !.activeClass = {}])} : Commit(s)
  /\ scrollListener' = 0
  /\ resizeListeners' = RemoveResizeListener(resizeListeners, effectRun)
  /\ pathInfo' = NoPathInfo
  /\ inThrottle' = FALSE
  /\ segmentsTimer' = FALSE
  /\ UNCHANGED <<progressVars, hashVars, utilVars, autoVars,
                 page, layout, present, linkHeight, now, cssVars, items, rafQueue,
                 frameLeft, effectRun, histVars>>

\* lines 235-237: handleScroll = () => requestAnimationFrame(updateActiveItems)
HandleScrollCoalesced(queue, callback) ==
  IF queue = <<>> THEN <<callback>> ELSE queue

HandleScroll(queue, callback) == Append(queue, callback)

\* the user scrolls the content to st and the scroll event is delivered
Scroll(st) ==
  /\ lastPass' = NoPass
  /\ frameLeft = 0
  /\ st <= MaxScroll(layout)
  /\ contentScrollTop' = st
  /\ IF scrollListener # 0
     THEN /\ Len(rafQueue) < MaxQueue
          /\ rafQueue' = HandleScroll(rafQueue, [run |-> scrollListener, items |-> items])
          /\ eventsSinceFrame' = eventsSinceFrame + 1
     ELSE UNCHANGED <<rafQueue, eventsSinceFrame>>
  \* hooks.js 391: the scroll listener of useReadingProgress
  /\ showProgress' = showProgress
  /\ IF phase = "mounted" /\ showProgress /\ ProgressContainer # NULL
     THEN UpdateProgress(st)
     ELSE UNCHANGED <<progress, progressThrottle>>
  /\ UNCHANGED <<hashVars, utilVars, autoVars,
                 page, layout, present, tocScrollTop, linkHeight, now, cssVars,
                 reactVars, pathVars, refVars, domVars, frameLeft, timers,
                 scrollListener, resizeListeners, effectRun, passesInFrame,
                 frameEvents, mutations>>

\* a scroll event within the observed period
ScrollBefore(st) ==
  /\ now < MaxTicks * TickMs
  /\ Scroll(st)

\* the browser starts a frame: the callbacks requested so far will run in it
BeginFrame ==
  /\ lastPass' = NoPass
  /\ frameLeft = 0
  /\ rafQueue # <<>>
  /\ frameLeft' = Len(rafQueue)
  /\ passesInFrame' = 0
  /\ frameEvents' = eventsSinceFrame
  /\ eventsSinceFrame' = 0
  /\ UNCHANGED <<progressVars, hashVars, utilVars, autoVars,
                 envVars, cssVars, reactVars, pathVars, refVars, domVars,
                 rafQueue, timers, scrollListener, resizeListeners, effectRun,
                 mutations>>

\* the frame invokes its next callback: one update pass
RunCallback ==
  /\ frameLeft > 0
  /\ \E s \in {UpdateActiveItems(Cur, Head(rafQueue).items)} :
        /\ Commit(s)
        /\ lastPass' = PassRecord(Head(rafQueue).items, s,
                                   phase # "mounted" \/ Head(rafQueue).run # effectRun)
        \* setActiveItems re-renders: calculatePath is rebuilt and re-run in
        \* its effect, its resize throttle and its 50ms timer start afresh
        /\ IF s.scrollContainerRef # NULL /\ s.phase = "mounted"
           THEN /\ pathInfo' = CalculatePath(s.rendered, s.activeItems, page,
                                             linkHeight, s.tocScrollTop)
                /\ inThrottle' = FALSE
                /\ segmentsTimer' = TRUE
           ELSE UNCHANGED pathVars
        /\ RenderEffects(s)
  /\ rafQueue' = Tail(rafQueue)
  /\ frameLeft' = frameLeft - 1
  /\ passesInFrame' = passesInFrame + 1
  /\ UNCHANGED <<progressVars, utilVars, autoVars,
                 page, layout, present, linkHeight, now, cssVars, items,
                 scrollListener, resizeListeners, effectRun, eventsSinceFrame,
                 frameEvents, mutations>>

\* time passes
Tick ==
  /\ lastPass' = NoPass
  /\ frameLeft = 0
  /\ now < MaxTicks * TickMs
  /\ now' = now + TickMs
  /\ UNCHANGED <<progressVars, hashVars, utilVars, autoVars,
                 page, layout, present, contentScrollTop, tocScrollTop, linkHeight,
                 cssVars, reactVars, pathVars, refVars, domVars, hostVars, histVars>>

\* time passes beyond the observed period until the pending timer is due
TickToTimer ==
  /\ lastPass' = NoPass
  /\ frameLeft = 0
  /\ now >= MaxTicks * TickMs
  /\ \E t \in timers : now < t.due
  /\ now' = now + TickMs
  /\ UNCHANGED <<progressVars, hashVars, utilVars, autoVars,
                 page, layout, present, contentScrollTop, tocScrollTop, linkHeight,
                 cssVars, reactVars, pathVars, refVars, domVars, hostVars, histVars>>

\* lines 108-113: the re-enable timer fires
TimerFire(t) ==
  /\ lastPass' = NoPass
  /\ frameLeft = 0
  /\ t \in timers
  /\ now >= t.due
  /\ timers' = timers \ {t}
  /\ IF SvgIndicatorRef(rendered) # NULL
     THEN transition' = "" /\ isFastScrollingRef' = FALSE
     ELSE UNCHANGED <<transition, isFastScrollingRef>>
  /\ UNCHANGED <<progressVars, hashVars, utilVars, autoVars,
                 envVars, cssVars, reactVars, pathVars, scrollContainerRef,
                 lastActiveIdsRef, lastScrollTopRef, lastScrollTimeRef, scrollTimeoutRef,
                 linkPositionsCacheRef, cacheInvalidatedRef, strokeDasharray,
                 strokeDashoffset, activeClass, rafQueue, frameLeft, scrollListener,
                 resizeListeners, effectRun, histVars>>

\* lines 76-79: the window is resized (the link rows may change height) and
\* every registered handleResize runs
LinkHeights == {0, 30}

Resize(lh) ==
  /\ lastPass' = NoPass
  /\ frameLeft = 0
  /\ linkHeight' = lh
  /\ cacheInvalidatedRef' = IF resizeListeners # {} THEN TRUE ELSE cacheInvalidatedRef
  \* lines 345-349: the throttled calculatePath of usePathSegments
  /\ IF phase = "mounted" /\ ~inThrottle
     THEN /\ pathInfo' = CalculatePath(rendered, activeItems, page, lh, tocScrollTop)
          /\ inThrottle' = TRUE
     ELSE UNCHANGED <<pathInfo, inThrottle>>
  /\ UNCHANGED <<progressVars, hashVars, utilVars, autoVars,
                 page, layout, present, contentScrollTop, tocScrollTop, now,
                 cssVars, reactVars, segmentsTimer, scrollContainerRef,
                 lastActiveIdsRef, lastScrollTopRef,
                 lastScrollTimeRef, isFastScrollingRef, scrollTimeoutRef,
                 linkPositionsCacheRef, domVars, hostVars, histVars>>

\* utils.js 193: the throttle's quiet period ends
ThrottleExpire ==
  /\ lastPass' = NoPass
  /\ frameLeft = 0
  /\ inThrottle
  /\ inThrottle' = FALSE
  /\ UNCHANGED <<progressVars, hashVars, utilVars, autoVars,
                 envVars, cssVars, reactVars, pathInfo, segmentsTimer, refVars,
                 domVars, hostVars, histVars>>

\* ProgressNavScrollspy.tsx 133-136: the 50ms timer calls updateSegments
UpdateSegments ==
  /\ lastPass' = NoPass
  /\ frameLeft = 0
  /\ segmentsTimer
  /\ segmentsTimer' = FALSE
  /\ pathInfo' = CalculatePath(rendered, activeItems, page, linkHeight, tocScrollTop)
  /\ UNCHANGED <<progressVars, hashVars, utilVars, autoVars,
                 envVars, cssVars, reactVars, inThrottle, refVars, domVars,
                 hostVars, histVars>>

\* the user scrolls the TOC's own scroller to v
TocOffsets == {0, 20, 30}

ScrollToc(v) ==
  /\ lastPass' = NoPass
  /\ frameLeft = 0
  /\ phase = "mounted"
  /\ \E sc \in {TocScrollContainer(page)} :
       /\ sc # "main"
       /\ \E maxScroll \in {ScrollHeightOf(sc, layout, rendered, linkHeight)
                               - ClientHeightOf(sc, layout)} :
            tocScrollTop' = ClampScroll(v, maxScroll)
  /\ UNCHANGED <<progressVars, hashVars, utilVars, autoVars,
                 page, layout, present, contentScrollTop, linkHeight, now, cssVars,
                 reactVars, pathVars, refVars, domVars, hostVars, histVars>>

\* utils.js 193: the quiet period of the throttled updateProgress ends
ProgressThrottleExpire ==
  /\ lastPass' = NoPass
  /\ frameLeft = 0
  /\ progressThrottle
  /\ progressThrottle' = FALSE
  /\ UNCHANGED <<envVars, cssVars, reactVars, pathVars, refVars, domVars, hostVars,
                 showProgress, progress, hashVars, utilVars, autoVars, histVars>>

\* the host renders the component with another value of the prop updateHash:
\* the effect of useHashUpdate runs again
SetUpdateHash(enabled) ==
  /\ lastPass' = NoPass
  /\ frameLeft = 0
  /\ phase = "mounted"
  /\ enabled # updateHash
  /\ updateHash' = enabled
  /\ UseHashUpdate(activeItems, enabled)
  /\ UNCHANGED <<envVars, cssVars, reactVars, pathVars, refVars, domVars, hostVars,
                 progressVars, utilVars, autoVars, histVars>>

\* the content changes under the component: a heading element is removed
\* from or inserted into the document
MutateDom(id) ==
  /\ lastPass' = NoPass
  /\ frameLeft = 0
  /\ mutations < MaxMutations
  /\ present' = IF id \in present THEN present \ {id} ELSE present \cup {id}
  /\ mutations' = mutations + 1
  /\ UNCHANGED <<progressVars, hashVars, utilVars, autoVars,
                 page, layout, contentScrollTop, tocScrollTop, linkHeight, now,
                 cssVars, reactVars, pathVars, refVars, domVars, hostVars,
                 passesInFrame, eventsSinceFrame, frameEvents>>

\* buildNestedStructure is applied to the flat list
BuildNested ==
  /\ utilDone = {}
  /\ \E r \in {BuildNestedStructure(heap, [i \in 1..Len(flatItems) |-> i])} :
       /\ heap' = r.heap
       /\ roots' = r.result
  /\ utilDone' = {"buildNestedStructure"}
  /\ UNCHANGED <<componentVars, autoVars, flatItems, flattened, elements, headings>>

\* flattenStructure is applied to what buildNestedStructure returned
Flatten ==
  /\ utilDone = {"buildNestedStructure"}
  /\ flattened' = FlattenStructure(heap, roots)
  /\ utilDone' = utilDone \cup {"flattenStructure"}
  /\ UNCHANGED <<componentVars, autoVars, flatItems, heap, roots, elements, headings>>

\* extractHeadingsFromDOM is applied to the container
Extract ==
  /\ utilDone = {}
  /\ \E r \in {ExtractHeadingsFromDOM(elements)} :
       /\ headings' = r.headings
       /\ elements' = r.elements
  /\ utilDone' = {"extractHeadingsFromDOM"}
  /\ UNCHANGED <<componentVars, autoVars, flatItems, heap, roots, flattened>>

\* ------------------------------------------------ useAutoExtractHeadings
\* hooks.js 281: setTimeout(extractHeadings, 50)
ExtractDelay == 50

\* hooks.js 282: the cleanup of effect run `run` clears its timeout
ClearExtractTimerNever(pending, run) == pending

ClearExtractTimer(pending, run) == {t \in pending : t.run # run}

\* hooks.js 263-281: the effect body of run `run` for the prop `provided`, on
\* the hook's state st = [items, isLoading, timers]
AutoEffect(st, provided, run) ==
  IF provided # <<>>
  THEN [st EXCEPT !.items = provided, !.isLoading = FALSE]
  ELSE [st EXCEPT !.isLoading = TRUE,
                  !.timers = @ \cup {[run |-> run, due |-> now + ExtractDelay]}]

\* hooks.js 271-278: extractHeadings, the timer's callback; the extraction
\* assigns ids to the elements that had none
ExtractHeadings(st, found, els) ==
  IF found
  THEN LET r == ExtractHeadingsFromDOM(els)
       IN [st EXCEPT !.items = r.headings, !.isLoading = FALSE, !.elements = r.elements]
  ELSE [st EXCEPT !.isLoading = FALSE]

AutoState ==
  [items |-> autoItems, isLoading |-> isLoading, timers |-> extractTimers,
   elements |-> elements]

AutoCommit(st) ==
  /\ autoItems' = st.items
  /\ isLoading' = st.isLoading
  /\ extractTimers' = st.timers
  /\ elements' = st.elements

\* the hook's component mounts with the prop `provided`: hooks.js 261-262
\* initialise the state, then the effect runs
AutoMount(provided) ==
  /\ autoPhase = "idle"
  /\ autoPhase' = "mounted"
  /\ providedItems' = provided
  /\ autoRun' = autoRun + 1
  /\ AutoCommit(AutoEffect([AutoState EXCEPT !.items = provided,
                                             !.isLoading = (provided = <<>>)],
                           provided, autoRun + 1))
  /\ UNCHANGED <<componentVars, contentFound, flatItems, heap, roots, flattened,
                 headings, utilDone>>

\* a dependency of the effect changes (the selectors, the levels or the
\* items prop): the cleanup of the previous run, then the effect again
AutoChange(provided) ==
  /\ autoPhase = "mounted"
  /\ autoRun <= MaxReruns
  /\ providedItems' = provided
  /\ autoRun' = autoRun + 1
  /\ AutoCommit(AutoEffect([AutoState EXCEPT !.timers = ClearExtractTimer(@, autoRun)],
                           provided, autoRun + 1))
  /\ UNCHANGED <<componentVars, contentFound, autoPhase, flatItems, heap, roots,
                 flattened, headings, utilDone>>

\* the hook's component unmounts: the cleanup of the current run
AutoUnmount ==
  /\ autoPhase = "mounted"
  /\ autoPhase' = "unmounted"
  /\ extractTimers' = ClearExtractTimer(extractTimers, autoRun)
  /\ UNCHANGED <<componentVars, utilVars, providedItems, contentFound, autoItems,
                 isLoading, autoRun>>

\* a pending timer of the hook is due and calls extractHeadings; React drops
\* the state updates of an unmounted component
AutoTimerFire(t) ==
  /\ t \in extractTimers
  /\ now >= t.due
  /\ \E st \in {ExtractHeadings([AutoState EXCEPT !.timers = @ \ {t}],
                                 contentFound, elements)} :
        IF autoPhase = "mounted"
        THEN AutoCommit(st)
        ELSE /\ extractTimers' = st.timers
             /\ elements' = st.elements
             /\ UNCHANGED <<autoItems, isLoading>>
  /\ UNCHANGED <<componentVars, providedItems, contentFound, autoPhase, autoRun,
                 flatItems, heap, roots, flattened, headings, utilDone>>

\* the content container appears in or disappears from the document
SetContent(found) ==
  /\ contentFound # found
  /\ contentFound' = found
  /\ UNCHANGED <<componentVars, utilVars, providedItems, autoItems, isLoading,
                 extractTimers, autoPhase, autoRun>>

\* ---------------------------------------------------- specifications
\* The component's life cycle in every page arrangement, over the Scenario A
\* content: mounting, catalog changes, unmounting, scroll events, frames,
\* timers and resizes.
LifecycleOffsets == {0, 2050, 6000}

Init == InitIn(PageNames, {LayoutTall}, {1}, {LevelsFlat}) /\ InitDefaults

Next ==
  \/ \E cat \in Catalogs : Mount(cat)
  \/ \E cat \in Catalogs : ChangeItems(cat)
  \/ Unmount
  \/ \E st \in LifecycleOffsets : Scroll(st)
  \/ BeginFrame
  \/ RunCallback
  \/ Tick
  \/ \E t \in timers : TimerFire(t)

Spec == Init /\ [][Next]_vars

\* Scrolling a mounted component over every heading layout and scroll offset,
\* with heading elements that come and go, in the split page.
InitContent == InitIn({"split"}, Layouts, {1}, {LevelsFlat}) /\ InitDefaults

NextContent ==
  \/ \E cat \in Catalogs : Mount(cat)
  \/ \E st \in ScrollOffsets : Scroll(st)
  \/ BeginFrame
  \/ RunCallback
  \/ \E id \in AllIds : MutateDom(id)

SpecContent == InitContent /\ [][NextContent]_vars

\* The table of contents itself, for a nested catalog in the split page: its
\* link geometry under resizes, in stacked and two-column lists, both
\* indicator channels and the TOC's own scroll offset.  The content is
\* scrollable (with s2 alone active at the top and at 460, s1 and s3 at 1150,
\* s1 at the bottom) or fits its container.
TocLayouts == {LayoutShuffled, LayoutFits}
TocContentOffsets == {0, 460, 1150, 6000}

InitToc == InitIn({"split"}, TocLayouts, {1, 2}, {LevelsNested}) /\ InitDefaults

NextToc ==
  \/ \E cat \in Catalogs : Mount(cat)
  \/ \E st \in TocContentOffsets : Scroll(st)
  \/ BeginFrame
  \/ RunCallback
  \/ \E lh \in LinkHeights : Resize(lh)
  \/ ThrottleExpire
  \/ UpdateSegments
  \/ \E v \in TocOffsets : ScrollToc(v)

SpecToc == InitToc /\ [][NextToc]_vars

\* the keep-in-view synchronizer on a TOC whose active range can be taller
\* than the band between the paddings: adjacent short sections, of which two
\* are in view together
InitSync == InitIn({"split"}, {LayoutShort}, {1}, {LevelsFlat}) /\ InitDefaults

NextSync ==
  \/ \E cat \in Catalogs : Mount(cat)
  \/ \E st \in TocContentOffsets : Scroll(st)
  \/ BeginFrame
  \/ RunCallback
  \/ \E v \in TocOffsets : ScrollToc(v)

SpecSync == InitSync /\ [][NextSync]_vars

\* the effect's listeners over mounts, dependency changes, unmounts and
\* window resizes
ListenerOffsets == {0, 2050}

InitListeners == InitIn({"split"}, {LayoutTall}, {1}, {LevelsFlat}) /\ InitDefaults

NextListeners ==
  \/ \E cat \in Catalogs : Mount(cat)
  \/ \E cat \in Catalogs : ChangeItems(cat)
  \/ ChangeOptions
  \/ Unmount
  \/ \E st \in ListenerOffsets : Scroll(st)
  \/ BeginFrame
  \/ RunCallback
  \/ \E lh \in LinkHeights : Resize(lh)

SpecListeners == InitListeners /\ [][NextListeners]_vars

\* Velocity tracking and the debounced re-enable timer, in the split page
\* over Scenario A: scroll events arrive during the observed period, time
\* keeps passing, and the host runs requested frames and due timers.
TimerOffsets == {0, 150, 2050}

InitTimer == InitIn({"split"}, {LayoutTall}, {1}, {LevelsFlat}) /\ InitDefaults

NextTimer ==
  \/ Mount(CatalogFull)
  \/ \E st \in TimerOffsets : ScrollBefore(st)
  \/ BeginFrame
  \/ RunCallback
  \/ Tick
  \/ TickToTimer
  \/ \E t \in timers : TimerFire(t)

\* The component's other hooks in the split page, over Scenario A and over
\* content that does not scroll: the reading progress, the URL hash (with the
\* prop switched on and off, on a page loaded with or without a hash) and
\* the onActiveChange callback.
HookLayouts == {LayoutTall, LayoutFits}
LoadedHashes == {"", "#s2"}

InitHooked ==
  /\ InitIn({"split"}, HookLayouts, {1}, {LevelsFlat})
  /\ InitHooks({TRUE}, BOOLEAN, LoadedHashes)
  /\ InitUtil
  /\ InitAuto

NextHooked ==
  \/ \E cat \in Catalogs : Mount(cat)
  \/ \E st \in LifecycleOffsets : Scroll(st)
  \/ BeginFrame
  \/ RunCallback
  \/ ProgressThrottleExpire
  \/ \E enabled \in BOOLEAN : SetUpdateHash(enabled)

SpecHooked == InitHooked /\ [][NextHooked]_vars

\* The reading progress over a burst of scroll events that ends: scroll
\* events arrive during the observed period only, time keeps passing, the
\* host runs requested frames and the throttle's timeout fires.
InitProgress ==
  /\ InitIn({"split"}, {LayoutTall}, {1}, {LevelsFlat})
  /\ InitHooks({TRUE}, {FALSE}, {""})
  /\ InitUtil
  /\ InitAuto

NextProgress ==
  \/ Mount(CatalogFull)
  \/ \E st \in LifecycleOffsets : ScrollBefore(st)
  \/ BeginFrame
  \/ RunCallback
  \/ Tick
  \/ ProgressThrottleExpire

SpecProgress ==
  /\ InitProgress
  /\ [][NextProgress]_vars
  /\ SF_vars(Tick)
  /\ WF_vars(BeginFrame)
  /\ WF_vars(RunCallback)
  /\ WF_vars(ProgressThrottleExpire)

\* buildNestedStructure and flattenStructure on every flat list of up to
\* MaxItems items with levels 1..6
InitNest ==
  /\ InitIn({"split"}, {LayoutTall}, {1}, {LevelsFlat})
  /\ InitHooks({FALSE}, {FALSE}, {""})
  /\ InitAuto
  /\ flatItems \in FlatLists
  /\ heap = [i \in 1..Len(flatItems) |-> InputObject(flatItems[i])]
  /\ roots = <<>>
  /\ flattened = <<>>
  /\ elements = <<>>
  /\ headings = <<>>
  /\ utilDone = {}

NextNest == BuildNested \/ Flatten

SpecNest == InitNest /\ [][NextNest]_vars

\* extractHeadingsFromDOM on every container of up to MaxElements elements
InitExtract ==
  /\ InitIn({"split"}, {LayoutTall}, {1}, {LevelsFlat})
  /\ InitHooks({FALSE}, {FALSE}, {""})
  /\ InitAuto
  /\ flatItems = <<>>
  /\ heap = <<>>
  /\ roots = <<>>
  /\ flattened = <<>>
  /\ elements \in ElementLists
  /\ headings = <<>>
  /\ utilDone = {}

NextExtract == Extract

SpecExtract == InitExtract /\ [][NextExtract]_vars

\* useAutoExtractHeadings with and without provided items, over content that
\* is or is not found, while time passes
ProvidedLists ==
  {<<>>,
   <<[id |-> <<"a">>, text |-> <<"A">>, level |-> 2, element |-> 0]>>,
   <<[id |-> <<"a", "-", "1">>, text |-> <<"a">>, level |-> 2, element |-> 0]>>}

AutoContents ==
  {<<>>,
   <<[level |-> 2, id |-> <<>>, text |-> <<"A">>],
     [level |-> 2, id |-> <<"a">>, text |-> <<"a">>]>>}

InitAutoExtract ==
  /\ InitIn({"split"}, {LayoutTall}, {1}, {LevelsFlat})
  /\ InitHooks({FALSE}, {FALSE}, {""})
  /\ InitAutoIn(BOOLEAN)
  /\ flatItems = <<>>
  /\ heap = <<>>
  /\ roots = <<>>
  /\ flattened = <<>>
  /\ elements \in AutoContents
  /\ headings = <<>>
  /\ utilDone = {}

NextAutoExtract ==
  \/ \E provided \in ProvidedLists : AutoMount(provided)
  \/ \E provided \in ProvidedLists : AutoChange(provided)
  \/ AutoUnmount
  \/ \E t \in extractTimers : AutoTimerFire(t)
  \/ \E found \in BOOLEAN : SetContent(found)
  \/ Tick

SpecAutoExtract == InitAutoExtract /\ [][NextAutoExtract]_vars

SpecTimer ==
  /\ InitTimer
  /\ [][NextTimer]_vars
  /\ SF_vars(Tick)
  /\ WF_vars(TickToTimer)
  /\ WF_vars(BeginFrame)
  /\ WF_vars(RunCallback)
  /\ WF_vars(\E t \in timers : TimerFire(t))


\* ================================================================ claims
\* The claims about one update pass are stated on the state right after the
\* step that executed it: lastPass holds what the pass was given.

\* a pass has just run, found its scroll container and had its state update
\* taken by React
PassCompleted == lastPass.ran /\ lastPass.completed

\* heading positions relative to the top edge of the content scroll
\* container, as the pass measured them
TopOf(id) == layout.pos[id].top - lastPass.scrollTop
BottomOf(id) == layout.pos[id].bottom - lastPass.scrollTop

\* positions in the pass's catalog of the located items that satisfy the
\* active predicate
Satisfying ==
  {i \in 1..Len(lastPass.its) :
     /\ lastPass.its[i] \in lastPass.present
     /\ TopOf(lastPass.its[i]) * ThresholdDen < layout.clientHeight * ThresholdNum
     /\ BottomOf(lastPass.its[i]) > -Offset}

\* positions in the pass's catalog of the located items above the viewport
Above ==
  {i \in 1..Len(lastPass.its) :
     lastPass.its[i] \in lastPass.present /\ TopOf(lastPass.its[i]) < 0}

Ids(seq) == {seq[i] : i \in 1..Len(seq)}

\* C1: whenever the component is mounted with its content scroll container
\* found, the active set holds at least one item (every mount runs an update
\* pass, and no later pass empties it), at every scroll offset.
C1_NonEmptyActiveSet ==
  (phase = "mounted" /\ scrollContainerRef # NULL) => Len(activeItems) >= 1

\* a pass at the maximum scroll offset of the short layout, where no heading
\* satisfies the predicate, left one active item
C1_Witness ==
  /\ PassCompleted /\ Satisfying = {}
  /\ layout = LayoutShort /\ lastPass.scrollTop = MaxScroll(layout)
  /\ Len(activeItems) = 1

\* C2: when at least one item satisfies the active predicate, the pass makes
\* the active set exactly the located catalog items with
\* headingTop < viewportHeight * viewportThreshold and headingBottom > -offset,
\* both strict, however many they are.
C2_ActivePredicate ==
  (PassCompleted /\ Satisfying # {}) =>
    /\ Ids(activeItems) = {lastPass.its[i] : i \in Satisfying}
    /\ Len(activeItems) = Cardinality(Satisfying)

\* Scenario B: the three short headings are active together
C2_Witness ==
  /\ PassCompleted /\ layout = LayoutShort
  /\ activeItems = CatalogFull

\* C3: when no item satisfies the predicate the pass leaves exactly one active
\* item: a located item above the viewport with the smallest |headingTop|, or
\* the first catalog item when no located item is above the viewport; with
\* every heading located, above the viewport and increasing in catalog order
\* it is the last catalog item.
C3_Fallback ==
  (PassCompleted /\ Satisfying = {}) =>
    /\ Len(activeItems) = 1
    /\ IF Above # {}
       THEN \E i \in Above :
              /\ activeItems[1] = lastPass.its[i]
              /\ \A j \in Above :
                   Abs(TopOf(lastPass.its[i])) <= Abs(TopOf(lastPass.its[j]))
       ELSE activeItems[1] = lastPass.its[1]
    /\ ( /\ Above = 1..Len(lastPass.its)
         /\ \A i \in 1..(Len(lastPass.its) - 1) :
              TopOf(lastPass.its[i]) < TopOf(lastPass.its[i + 1]) )
       => activeItems = <<lastPass.its[Len(lastPass.its)]>>

\* scrolled past the last of the short headings: the last one is active
C3_Witness ==
  /\ PassCompleted /\ Satisfying = {}
  /\ layout = LayoutShort /\ Above = 1..Len(lastPass.its)
  /\ activeItems = <<"s3">>

\* C4: after a pass the active set is a duplicate-free subsequence of the
\* catalog the pass scanned, in catalog order, whatever the layout.
C4_CatalogOrder ==
  PassCompleted =>
    /\ \A j \in 1..Len(activeItems) : IndexOf(lastPass.its, activeItems[j]) > 0
    /\ \A j, k \in 1..Len(activeItems) :
         j < k => IndexOf(lastPass.its, activeItems[j]) < IndexOf(lastPass.its, activeItems[k])

\* in the shuffled layout s3 lies above s1 on the page and both are active,
\* listed in catalog order
C4_Witness ==
  /\ PassCompleted /\ layout = LayoutShuffled
  /\ layout.pos["s3"].top < layout.pos["s1"].top
  /\ activeItems = <<"s1", "s3">>

\* C5: Scenario A: over the tall layout with every heading located, a pass
\* at scrollTop 0 makes the active set [s1] and a pass at scrollTop 2050
\* makes it [s1, s2].
C5_ScenarioA ==
  ( /\ PassCompleted /\ lastPass.its = CatalogFull
    /\ layout = LayoutTall /\ lastPass.present = AllIds ) =>
      /\ lastPass.scrollTop = 0 => activeItems = <<"s1">>
      /\ lastPass.scrollTop = 2050 => activeItems = <<"s1", "s2">>

C5_Witness ==
  /\ PassCompleted /\ lastPass.its = CatalogFull
  /\ layout = LayoutTall /\ lastPass.present = AllIds
  /\ lastPass.scrollTop = 2050
  /\ activeItems = <<"s1", "s2">>

\* C6: an item whose heading element is missing when a pass runs is not in
\* the active set after the pass.
C6_MissingNeverActive ==
  PassCompleted => Ids(activeItems) \subseteq lastPass.present

\* C7: when no scrollable ancestor of the first heading exists the component
\* still listens for scrolling and has a non-empty active set.
C7_ViewportFallback ==
  (phase = "mounted" /\ FindScrollParent(page, "heading") = NULL) =>
    (scrollListener # 0 /\ Len(activeItems) >= 1)

C9_NoStalePass == lastPass.ran => ~lastPass.stale

\* C10: after the component has been torn down no re-enable timer is pending
\* (so none can fire).
C10_NoTimerAfterTeardown == phase = "unmounted" => timers = {}

\* a pass queued before the teardown ran after it, while the latest timer was
\* armed less than 150 ms earlier
C10_Witness ==
  /\ phase = "unmounted" /\ lastPass.ran /\ lastPass.stale
  /\ scrollTimeoutRef # 0

\* ------------------------------------------------- the table of contents
\* The TOC claims are stated for the split page, where the TOC scrolls in
\* its own scroller.

\* the indicator block of the last step's pass ran: it read the position
\* cache and recorded the active ids as applied
IndicatorUpdated == lastPass.ran /\ lastActiveIdsRef # lastPass.lastActiveIds

\* a from-scratch measurement of the rendered links in the current layout,
\* relative to the list
Remeasured ==
  [i \in 1..Len(rendered) |->
     [id |-> rendered[i],
      top |-> RowOf(i, Len(rendered)) * linkHeight,
      bottom |-> RowOf(i, Len(rendered)) * linkHeight + linkHeight]]

\* C11: the first cache read after a resize marked the cache stale
\* re-measures every rendered link, returns what a from-scratch measurement
\* of the current layout returns, and clears the stale flag.
C11_FreshAfterResize ==
  (IndicatorUpdated /\ lastPass.cacheInvalidated) =>
     /\ ~cacheInvalidatedRef
     /\ linkPositionsCacheRef.has
     /\ linkPositionsCacheRef.positions = Remeasured

\* a populated cache was stale when the pass read it, and the pass replaced
\* the memoized positions by different ones
C11_Witness ==
  /\ IndicatorUpdated /\ lastPass.cacheInvalidated
  /\ lastPass.cache.has
  /\ lastPass.cache.positions # linkPositionsCacheRef.positions

\* link positions laid out one below the other, in their order
Stacked(positions) ==
  \A i \in 1..Len(positions) :
    /\ positions[i].top <= positions[i].bottom
    /\ i > 1 => positions[i - 1].bottom <= positions[i].top

\* the rendered links are laid out one below the other in catalog order
ListStacked ==
  \A i \in 2..Len(rendered) :
    RowOf(i, Len(rendered)) = RowOf(i - 1, Len(rendered)) + 1

WithinBounds(g) ==
  /\ 0 <= g.activeStart
  /\ 0 <= g.activeLength
  /\ g.activeStart + g.activeLength <= g.totalLength

\* the last step's pass wrote the indicator (and then ran the synchronizer)
IndicatorWritten == lastPass.ran /\ lastPass.written.has

\* C12: every computed PathGeometry, for any link positions with
\* top <= bottom and any active set, satisfies 0 <= activeStart,
\* 0 <= activeLength and activeStart + activeLength <= totalLength: the
\* geometry a pass writes to the indicator, and pathData.
C12_GeometryBounds ==
  /\ (/\ IndicatorWritten
      /\ \A i \in 1..Len(linkPositionsCacheRef.positions) :
            linkPositionsCacheRef.positions[i].top
              <= linkPositionsCacheRef.positions[i].bottom)
       => WithinBounds(lastPass.written)
  /\ phase = "mounted" => WithinBounds(PathData(pathInfo))

\* C12 amended: the bounds hold for link positions that are stacked from
\* top to bottom in catalog order.
C12_StackedGeometryBounds ==
  /\ (IndicatorWritten /\ Stacked(linkPositionsCacheRef.positions))
       => WithinBounds(lastPass.written)
  /\ (phase = "mounted" /\ ListStacked) => WithinBounds(PathData(pathInfo))

\* a pass wrote the geometry of two active links of a stacked list
C12_Witness ==
  /\ IndicatorWritten /\ Stacked(linkPositionsCacheRef.positions)
  /\ Len(activeItems) = 2
  /\ lastPass.written.activeLength > 0
  /\ WithinBounds(PathData(pathInfo)) /\ PathData(pathInfo).activeLength > 0

\* C13: whenever totalLength <= 0 the indicator's dash-array is "0" and its
\* dash-offset is "0", on the channel of the update pass and on the channel
\* of the render.
C13_DegenerateDash ==
  /\ (IndicatorWritten /\ lastPass.written.totalLength <= 0)
       => (strokeDasharray = "0" /\ strokeDashoffset = "0")
  /\ (phase = "mounted" /\ pathInfo.endY - pathInfo.startY <= 0)
       => ActiveDash(PathData(pathInfo))
            = [activeDashArray |-> "0", activeDashOffset |-> "0"]

\* C14: for totalLength > 0 the dash-array is "<activeLength> <totalLength>"
\* and the dash-offset "-<activeStart>", on both channels, so the two
\* channels write equal strings for equal geometry.
C14_DashEncoding ==
  /\ (IndicatorWritten /\ lastPass.written.totalLength > 0) =>
       /\ strokeDasharray = ToString(lastPass.written.activeLength) \o " "
                              \o ToString(lastPass.written.totalLength)
       /\ strokeDashoffset = "-" \o ToString(lastPass.written.activeStart)
  /\ (phase = "mounted" /\ PathData(pathInfo).totalLength > 0) =>
       /\ ActiveDash(PathData(pathInfo)).activeDashArray
            = ToString(PathData(pathInfo).activeLength) \o " "
                \o ToString(PathData(pathInfo).totalLength)
       /\ ActiveDash(PathData(pathInfo)).activeDashOffset
            = "-" \o ToString(PathData(pathInfo).activeStart)

\* a pass and the render that followed it computed the same geometry, with
\* the active span inside the track, and hold the same strings
C14_Witness ==
  /\ IndicatorWritten /\ lastPass.completed
  /\ lastPass.written.totalLength > 0
  /\ lastPass.written.activeStart > 0
  /\ PathData(pathInfo).totalLength = lastPass.written.totalLength
  /\ PathData(pathInfo).activeStart = lastPass.written.activeStart
  /\ PathData(pathInfo).activeLength = lastPass.written.activeLength
  /\ strokeDasharray = ActiveDash(PathData(pathInfo)).activeDashArray
  /\ strokeDashoffset = ActiveDash(PathData(pathInfo)).activeDashOffset

\* the rendered links of the active items, by position in the catalog
ActiveLinks == {i \in 1..Len(rendered) : rendered[i] \in Ids(activeItems)}
FirstActiveLink == CHOOSE i \in ActiveLinks : \A j \in ActiveLinks : i <= j
LastActiveLink == CHOOSE i \in ActiveLinks : \A j \in ActiveLinks : j <= i

\* C15: after the render that follows a pass, pathData.totalLength is the
\* bottom of the last link minus the top of the first link, whatever is
\* active; activeStart is the top of the first active link minus the top of
\* the first link and activeLength the bottom of the last active link minus
\* the top of the first active link.
C15_TrackAndActiveSpan ==
  PassCompleted =>
    /\ PathData(pathInfo).totalLength
         = Remeasured[Len(rendered)].bottom - Remeasured[1].top
    /\ ActiveLinks # {} =>
         /\ PathData(pathInfo).activeStart
              = Remeasured[FirstActiveLink].top - Remeasured[1].top
         /\ PathData(pathInfo).activeLength
              = Remeasured[LastActiveLink].bottom - Remeasured[FirstActiveLink].top

\* the active link is neither the first nor the whole track
C15_Witness ==
  /\ PassCompleted /\ ActiveLinks # {}
  /\ PathData(pathInfo).activeStart > 0
  /\ PathData(pathInfo).activeLength > 0
  /\ PathData(pathInfo).activeStart + PathData(pathInfo).activeLength
       < PathData(pathInfo).totalLength

TocViewportTop == TocBox.top
TocViewportBottom == TocBox.top + TocBox.clientHeight
TocMaxScroll ==
  Max(TocBox.clientHeight, TocBox.header + Rows(Len(rendered)) * linkHeight)
    - TocBox.clientHeight
DocMaxScroll == layout.scrollHeight - layout.clientHeight
AtTop == lastPass.scrollTop <= 0
AtBottom == lastPass.scrollTop >= DocMaxScroll - 1
FirstActiveTop(t) ==
  TocBox.top + TocBox.header - t + Remeasured[FirstActiveLink].top
LastActiveBottom(t) ==
  TocBox.top + TocBox.header - t + Remeasured[LastActiveLink].bottom

\* the last step's pass ran the synchronizer
SynchronizerRan == IndicatorWritten /\ lastPass.completed

\* C17: after every update pass with an active item and the content offset
\* <= 0 the TOC scroll offset is 0, whether or not the active set changed.
C17_TopSnapEveryPass ==
  (PassCompleted /\ activeItems # <<>> /\ AtTop) => tocScrollTop = 0

WithinTocRange(v) == Max(0, Min(v, TocMaxScroll))

InBand(t) ==
  /\ FirstActiveTop(t) >= TocViewportTop + TocScrollPadding
  /\ LastActiveBottom(t) <= TocViewportBottom - TocScrollPadding

\* C20: whenever the active link range already lies within the padded
\* viewport of the TOC, a run of the synchronizer leaves the TOC offset
\* unchanged.
C20_Idempotence ==
  (SynchronizerRan /\ InBand(lastPass.tocScrollTop))
    => tocScrollTop = lastPass.tocScrollTop

\* C20 amended: the same, when the content is at neither its top nor its
\* bottom.
C20_IdempotenceInView ==
  (SynchronizerRan /\ ~AtTop /\ ~AtBottom /\ InBand(lastPass.tocScrollTop))
    => tocScrollTop = lastPass.tocScrollTop

\* the synchronizer ran in the keep-in-view case on a scrolled TOC whose
\* active range was in view
C20_Witness ==
  /\ SynchronizerRan /\ ~AtTop /\ ~AtBottom
  /\ InBand(lastPass.tocScrollTop)
  /\ lastPass.tocScrollTop > 0
  /\ tocScrollTop = lastPass.tocScrollTop

\* C21: an update pass leaves the scroll offset of the content scroll
\* container as it read it, in every arrangement of the page (also where the
\* TOC's nearest scrollable ancestor is the content's scroll container).
C21_ContentScrollUntouched ==
  lastPass.ran => contentScrollTop = lastPass.scrollTop

\* the last step's pass got past its scroll-container check
PassMeasured == lastPass.ran /\ scrollContainerRef # NULL
Elapsed == now - lastPass.lastScrollTime
DeltaScroll == Abs(lastPass.scrollTop - lastPass.lastScrollTop)

\* C22: after each update pass isFastScrolling equals
\* |currentOffset - lastOffset| / max(elapsedMillis, epsilon) > threshold, so
\* that a non-zero change of the offset in zero elapsed time counts as fast,
\* and lastScrollOffset / lastTimestamp are the offset and time of the pass.
C22_VelocityFlag ==
  PassMeasured =>
    /\ isFastScrollingRef =
         IF Elapsed > 0 THEN DeltaScroll > VelocityThreshold * Elapsed
         ELSE DeltaScroll > 0
    /\ lastScrollTopRef = lastPass.scrollTop
    /\ lastScrollTimeRef = now

\* C22 amended: isFastScrolling equals (elapsed > 0 and
\* |currentOffset - lastOffset| / elapsed > threshold), strictly: with zero
\* elapsed time the velocity is 0 and the pass is not fast.
C22_VelocityFlagElapsed ==
  PassMeasured =>
    /\ isFastScrollingRef =
         (Elapsed > 0 /\ DeltaScroll > VelocityThreshold * Elapsed)
    /\ lastScrollTopRef = lastPass.scrollTop
    /\ lastScrollTimeRef = now

\* a pass measured a velocity of exactly the threshold and is not fast
C22_Witness ==
  /\ PassMeasured
  /\ Elapsed > 0
  /\ DeltaScroll = VelocityThreshold * Elapsed
  /\ ~isFastScrollingRef
  /\ lastScrollTopRef = contentScrollTop

\* the last step's pass reached the indicator's transition handling
PassDebounced == PassMeasured /\ SvgIndicatorRef(rendered) # NULL

\* the pass in which isFastScrolling turns from false to true suppresses the
\* transition; every pass leaves exactly one pending re-enable timer, its own,
\* due 150ms after the pass; at most one timer is ever pending
DebounceInvariant ==
  /\ Cardinality(timers) <= 1
  /\ PassDebounced =>
       /\ (isFastScrollingRef /\ ~lastPass.isFastScrolling) => transition = "none"
       /\ timers = {[h |-> scrollTimeoutRef, due |-> now + ReenableDelay]}

\* the transition is re-enabled only 150ms or more after the most recent
\* pass, together with the reset of isFastScrolling
ReenableStep ==
  (transition = "none" /\ transition' # "none") =>
    /\ now >= lastScrollTimeRef + ReenableDelay
    /\ transition' = ""
    /\ ~isFastScrollingRef'

\* C23: suppression on entering fast scrolling, cancel-and-reschedule of the
\* single re-enable timer on every pass, re-enabling only 150ms after the
\* most recent pass, and eventual re-enabling once the passes stop.
C23_DebouncedReenable ==
  /\ []DebounceInvariant
  /\ [][ReenableStep]_vars
  /\ (transition = "none") ~> (transition = "" /\ ~isFastScrollingRef)

\* a pass entered fast scrolling, suppressed the transition and replaced the
\* pending timer of the pass before it
C23_Witness ==
  /\ PassDebounced
  /\ isFastScrollingRef /\ ~lastPass.isFastScrolling
  /\ transition = "none"
  /\ lastPass.timers # {}
  /\ timers # lastPass.timers
  /\ Cardinality(timers) = 1

\* the order of the stages of one pass
StageRank ==
  [stage \in {"resolve", "geometry", "synchronize", "setActiveItems"} |->
     CASE stage = "resolve" -> 1
       [] stage = "geometry" -> 2
       [] stage = "synchronize" -> 3
       [] OTHER -> 4]

InStageOrder(steps) ==
  \A i, j \in 1..Len(steps) : i < j => StageRank[steps[i]] < StageRank[steps[j]]

\* the link position of id in the cache the pass left behind
CachedPosition(id) ==
  linkPositionsCacheRef.positions[
    CHOOSE i \in 1..Len(linkPositionsCacheRef.positions) :
      linkPositionsCacheRef.positions[i].id = id]

\* C24: a pass resolves the active set first, then computes and writes the
\* indicator geometry (of the set it has just resolved), then runs the
\* synchronizer, and updates the declarative state last; a pass goes through
\* all its stages within its own step, so two passes never interleave.
C24_PassOrder ==
  (lastPass.ran /\ scrollContainerRef # NULL) =>
    /\ InStageOrder(lastPass.steps)
    /\ Head(lastPass.steps) = "resolve"
    /\ lastPass.steps[Len(lastPass.steps)] = "setActiveItems"
    /\ (lastPass.written.has /\ lastPass.completed) =>
         /\ lastPass.steps = <<"resolve", "geometry", "synchronize", "setActiveItems">>
         /\ lastPass.written.activeStart
              = CachedPosition(activeItems[1]).top
                  - linkPositionsCacheRef.positions[1].top
         /\ lastPass.written.activeStart + lastPass.written.activeLength
              = CachedPosition(activeItems[Len(activeItems)]).bottom
                  - linkPositionsCacheRef.positions[1].top

\* a pass went through all four stages for an active set that differs from
\* the one before, and the geometry it wrote does not start at the track's top
C24_Witness ==
  /\ lastPass.ran /\ lastPass.completed
  /\ lastPass.steps = <<"resolve", "geometry", "synchronize", "setActiveItems">>
  /\ lastPass.lastActiveIds # ""
  /\ lastPass.written.activeStart > 0
  /\ JoinIds(activeItems) = lastActiveIdsRef

\* C25: once the render that the latest pass triggered has completed, the
\* dash-array and dash-offset the scroll passes wrote to the indicator's
\* style equal the ones derived from pathData for the rendered attributes.
C25_ChannelsAgree ==
  (PassCompleted /\ strokeDasharray # "") =>
    /\ strokeDasharray = ActiveDash(PathData(pathInfo)).activeDashArray
    /\ strokeDashoffset = ActiveDash(PathData(pathInfo)).activeDashOffset

\* C26: a pass that leaves the sequence of active ids unchanged does not
\* invoke onActiveChange, and a pass that changes it invokes onActiveChange
\* once, with the new active set.
C26_NotifiedOnChange ==
  PassCompleted =>
    IF activeItems = lastPass.activeItems
    THEN lastPass.onActiveChange = <<>>
    ELSE lastPass.onActiveChange = <<activeItems>>

\* with updateHash enabled and an active item the URL hash addresses the
\* first active item; history is only ever changed with replaceState, and
\* never twice in a row with the same hash
HashInvariant ==
  /\ (phase = "mounted" /\ updateHash /\ activeItems # <<>>)
       => urlHash = "#" \o activeItems[1]
  /\ \A i \in 1..Len(historyCalls) : historyCalls[i].method = "replaceState"
  /\ Len(historyCalls) = 2 => historyCalls[1].hash # historyCalls[2].hash

\* a render with updateHash disabled or without an active item leaves the
\* URL alone, and the URL changes only through a call of history
HashStep ==
  /\ (~updateHash' \/ activeItems' = <<>>) => UNCHANGED <<urlHash, historyCalls>>
  /\ urlHash' # urlHash =>
       /\ historyCalls' # historyCalls
       /\ historyCalls'[Len(historyCalls')].hash = urlHash'

\* C27: with updateHash enabled and a non-empty active set, after each
\* change of activeItems the URL hash is "#" + the first active id, written
\* with history.replaceState and never twice in a row with the same hash;
\* with updateHash disabled or an empty active set the URL is not modified.
C27_HashUpdate == []HashInvariant /\ [][HashStep]_vars

\* a pass changed the first active item and the hash was replaced a second
\* time, on a page that had been loaded with another hash
C27_Witness ==
  /\ PassCompleted /\ updateHash
  /\ lastPass.activeItems # <<>>
  /\ lastPass.activeItems[1] # activeItems[1]
  /\ Len(historyCalls) = 2
  /\ urlHash = "#" \o activeItems[1]
  /\ historyCalls[2] = [method |-> "replaceState", hash |-> urlHash]

\* C30: for every scroll state of the content's scroll container the
\* progress of useReadingProgress is calculateReadingProgress of that state
\* rounded to an integer, a value in 0..100, and 100 when the content is not
\* scrollable.
C30_ProgressReported ==
  (phase = "mounted" /\ showProgress /\ ProgressContainer # NULL) =>
    LET r == CalculateReadingProgress(contentScrollTop, layout.scrollHeight,
                                      layout.clientHeight)
    IN /\ progress = RoundHalfUp(r.num, r.den)
       /\ progress \in 0..100
       /\ layout.scrollHeight - layout.clientHeight <= 0 => progress = 100

\* the input items are the objects they were before the call
InputUnchanged ==
  \A i \in 1..Len(flatItems) : heap[i] = InputObject(flatItems[i])

\* C28: flattenStructure(buildNestedStructure(items)) lists the same
\* (id, text, level) triples in the same order as items, and
\* buildNestedStructure does not mutate its input items.
C28_FlattenInvertsBuild ==
  /\ "buildNestedStructure" \in utilDone => InputUnchanged
  /\ "flattenStructure" \in utilDone =>
       /\ Len(flattened) = Len(flatItems)
       /\ \A i \in 1..Len(flatItems) :
            /\ flattened[i] > Len(flatItems)
            /\ heap[flattened[i]].id = flatItems[i].id
            /\ heap[flattened[i]].text = flatItems[i].text
            /\ heap[flattened[i]].level = flatItems[i].level

\* a list was nested two levels deep under its first item, followed by a
\* second root, and flattened again
C28_Witness ==
  /\ "flattenStructure" \in utilDone
  /\ Len(flatItems) = 4
  /\ Len(roots) = 2
  /\ Len(heap[roots[1]].children) = 1
  /\ Len(heap[heap[roots[1]].children[1]].children) = 1
  /\ \A i \in 1..4 : heap[flattened[i]].id = flatItems[i].id

\* C29: after extractHeadingsFromDOM every returned item's id equals the id
\* attribute of the heading element it was extracted from, also for headings
\* that carry duplicate ids.
C29_IdsAddressHeadings ==
  "extractHeadingsFromDOM" \in utilDone =>
    \A k \in 1..Len(headings) :
      headings[k].id = elements[headings[k].element].id

\* an update pass never sets the stale flag, and one that finds the cache
\* populated and not stale leaves the stored mapping as it was and measures
\* no link
PassKeepsCache ==
  /\ (lastPass.ran /\ cacheInvalidatedRef) => lastPass.cacheInvalidated
  /\ (lastPass.ran /\ lastPass.cache.has /\ ~lastPass.cacheInvalidated) =>
        /\ linkPositionsCacheRef = lastPass.cache
        /\ ~lastPass.measured

\* the step of a scroll event (it queues a frame callback or moves the
\* content) leaves the stale flag and the cache as they were
ScrollEventKeepsCache ==
  (Len(rafQueue') > Len(rafQueue) \/ (contentScrollTop' # contentScrollTop /\ ~lastPass'.ran)) =>
     /\ cacheInvalidatedRef' = cacheInvalidatedRef
     /\ linkPositionsCacheRef' = linkPositionsCacheRef

\* C31: a scroll event or an update pass never sets the stale flag of the
\* position cache, and a pass that finds the cache populated and not stale
\* leaves the stored mapping as it was and measures no link.
C31_ScrollKeepsCache == []PassKeepsCache /\ [][ScrollEventKeepsCache]_vars

\* a pass applied new active ids from a populated cache that was not stale
C31_Witness ==
  /\ IndicatorUpdated
  /\ lastPass.cache.has /\ ~lastPass.cacheInvalidated
  /\ lastPass.cache.positions # <<>>
  /\ lastPass.written.has

\* C32: once the catalog was replaced and its links are rendered, a read of
\* the position cache returns one entry per rendered link of the current
\* catalog, keyed by its id, and no entry of the previous catalog.
C32_CacheFollowsCatalog ==
  (IndicatorUpdated /\ phase = "mounted" /\ lastPass.its = rendered) =>
     /\ linkPositionsCacheRef.has
     /\ [i \in 1..Len(linkPositionsCacheRef.positions) |->
           linkPositionsCacheRef.positions[i].id] = rendered

\* the TOC scroll offset after the synchronizer runs once more on the state
\* as it is, with the same active links and layout
SecondRun ==
  AutoScrollToc(Cur, ActivePositions(activeItems, linkPositionsCacheRef.positions)).tocScrollTop

\* C33: with the content at neither extreme, a second run of the keep-in-view
\* synchronizer right after a first one leaves the TOC scroll offset as the
\* first run left it, whatever the height of the active range.
C33_NoOscillation ==
  (SynchronizerRan /\ ~AtTop /\ ~AtBottom) => SecondRun = tocScrollTop

\* at most one scroll listener (scrollListener names the effect run that
\* registered it, or 0) and at most one resize listener; the resize listener
\* whenever the scroll listener; neither once unmounted
ListenersRegistered ==
  /\ Cardinality(resizeListeners) <= 1
  /\ scrollListener # 0 => resizeListeners = {scrollListener}
  /\ phase = "mounted" => resizeListeners = {effectRun}
  /\ phase = "unmounted" => (scrollListener = 0 /\ resizeListeners = {})

\* no step of the unmounted component sets the stale flag
UnmountedKeepsFlag ==
  (phase = "unmounted" /\ ~cacheInvalidatedRef) => ~cacheInvalidatedRef'

C35_LoadingState ==
  /\ (autoPhase = "mounted" /\ providedItems # <<>>) =>
        (autoItems = providedItems /\ ~isLoading /\ extractTimers = {})
  /\ (autoPhase = "mounted" /\ providedItems = <<>>) =>
        /\ isLoading <=> extractTimers # {}
        /\ extractTimers \subseteq {[run |-> autoRun, due |-> d] : d \in 0..(MaxTicks * TickMs + ExtractDelay)}
        /\ Cardinality(extractTimers) <= 1
  /\ autoPhase = "unmounted" => extractTimers = {}

\* no items were provided, the timer of a re-run effect fired without finding
\* the content container, and loading ended with the items as they were
C35_Witness ==
  /\ autoPhase = "mounted" /\ providedItems = <<>>
  /\ autoRun > 1
  /\ ~contentFound
  /\ ~isLoading
  /\ extractTimers = {}

\* every heading of the pass's catalog is present, and heading tops and
\* bottoms do not decrease in catalog order
HeadingsInOrder ==
  /\ Ids(lastPass.its) \subseteq lastPass.present
  /\ \A i, j \in 1..Len(lastPass.its) :
        i < j => /\ layout.pos[lastPass.its[i]].top <= layout.pos[lastPass.its[j]].top
                 /\ layout.pos[lastPass.its[i]].bottom <= layout.pos[lastPass.its[j]].bottom

\* positions in the pass's catalog of the active items
ActivePlaces == {i \in 1..Len(lastPass.its) : lastPass.its[i] \in Ids(activeItems)}

\* C36: with every heading present and heading tops and bottoms
\* non-decreasing in catalog order, the active set after a pass is a
\* contiguous run of the catalog, listed in catalog order: no inactive item
\* lies between two active ones.
C36_ContiguousRange ==
  (PassCompleted /\ HeadingsInOrder) =>
     /\ \A i, j \in ActivePlaces : \A k \in i..j : k \in ActivePlaces
     /\ \A n \in 1..Len(activeItems) :
           activeItems[n] = lastPass.its[n - 1 + CHOOSE i \in ActivePlaces : \A j \in ActivePlaces : i <= j]

\* a run of two items that starts after the first catalog item is active
C36_Witness ==
  /\ PassCompleted /\ HeadingsInOrder
  /\ lastPass.its = CatalogFull
  /\ activeItems = <<"s2", "s3">>

\* C38: a pass that records the active ids as last applied has written the
\* indicator dash values for them and has put the active class on exactly
\* their links.
C38_AppliedIdsApplied ==
  (IndicatorUpdated /\ PassCompleted) =>
     /\ lastPass.written.has
     /\ activeClass = Ids(activeItems)

\* the dash values the indicator block computes from a from-scratch
\* measurement of the rendered links, for the current active items
FreshDash ==
  LET trackStart == Remeasured[1].top
      totalLength == Remeasured[Len(Remeasured)].bottom - trackStart
      activeStart == Remeasured[FirstActiveLink].top - trackStart
      activeLength == Remeasured[LastActiveLink].bottom - trackStart - activeStart
  IN [array |-> DashArrayString(activeLength, totalLength),
      offset |-> DashOffsetString(activeStart)]

\* C37: at the end of the first update pass after a resize (the pass found
\* the populated cache marked stale), the dash-array and dash-offset in
\* effect on the indicator, its inline style, are the ones of the current
\* link geometry, also when the active set is the one already applied.
C37_IndicatorFollowsResize ==
  (PassCompleted /\ lastPass.cacheInvalidated /\ lastPass.cache.has
     /\ strokeDasharray # "" /\ ActiveLinks # {}) =>
     /\ strokeDasharray = FreshDash.array
     /\ strokeDashoffset = FreshDash.offset

\* C39: once scroll events have stopped, the progress that useReadingProgress
\* reports eventually is, and stays, the progress of the final scroll offset.
C39_ProgressSettles ==
  <>[]((phase = "mounted" /\ showProgress /\ ProgressContainer # NULL)
         => progress = ReadProgress(contentScrollTop))

====
